---- MODULE Spec2Model ----
(***************************************************************************)
(* A state-machine model of the Tetris core in src/tetris.cpp and          *)
(* src/tetris.h: Piece (geometry, rotation, kick tables), Board (grid,     *)
(* collision, spawn, motion, ghost row, line detection and compaction) and *)
(* Tetris (the controller: timers, input arbitration, lock delay, line     *)
(* clear pause, two-half bag).                                             *)
(*                                                                         *)
(* The two objects are the records `board` and `tetris`, one field per     *)
(* data member, named as in the source without the trailing underscore.    *)
(* Vectors are sequences; a C++ index i is element i + 1.  Times are       *)
(* integers in milliseconds.  Each public member function of Tetris is one *)
(* action, computed by operators that follow the calls the function makes. *)
(***************************************************************************)
EXTENDS Integers, Sequences, FiniteSets, Bags, TLC

VARIABLES board, tetris, drawn, restarts, events, blocked, hand

vars == <<board, tetris, drawn, restarts, events, blocked, hand>>

(***************************************************************************)
(* Bounds of the model.                                                    *)
(***************************************************************************)
\* Board(nRows, nCols) of the bounded game: visible rows and columns.
BoardRows == 3
BoardCols == 4
\* Tetris(board, timeStep, seed): the fixed timestep, in milliseconds.
TimeStepMs == 1000
\* restart(level) is called with level in 1..MaxLevel.
MaxLevel == 1
\* Pieces drawn from the bag in the session begun by the constructor.
MaxDraws == 2

\* Pieces drawn from the bag in a session begun by restart.
MaxRedraws == 1
\* Successful moves of a grounded piece counted for one piece.
MaxMoves == 2
\* Calls of restart in one run.
MaxRestarts == 1

(***************************************************************************)
(* Program constants.                                                      *)
(***************************************************************************)
kNumPieces == 7
kEmpty == -1
kNone == -1
kPieceI == 0
kPieceJ == 1
kPieceL == 2
kPieceO == 3
kPieceS == 4
kPieceT == 5
kPieceZ == 6
kNumStates == 4
kRowsAbove == 2
\* Tetris:: timing constants, in milliseconds.
kMoveDelay == 50
kMoveRepeatDelay == 150
kSoftDropSpeedFactor == 20
kLockDownTimeLimit == 400
kLockDownMovesLimit == 15
kPauseAfterLineClear == 300

Kinds == kPieceI .. kPieceZ

Min(a, b) == IF a <= b THEN a ELSE b

(***************************************************************************)
(* Piece                                                                   *)
(***************************************************************************)
\* bBoxSide_ set by Piece::Piece.
BBoxSideOf(kind) ==
  CASE kind = kNone -> 0
    [] kind = kPieceI -> 4
    [] kind = kPieceO -> 2
    [] OTHER -> 3

\* shape_ set by Piece::Piece; c is the colour, which is the kind's number.
InitialShape(kind) ==
  LET e == kEmpty
      c == kind
  IN CASE kind = kNone -> << >>
       [] kind = kPieceI -> <<e, e, e, e, c, c, c, c, e, e, e, e, e, e, e, e>>
       [] kind = kPieceJ -> <<c, e, e, c, c, c, e, e, e>>
       [] kind = kPieceL -> <<e, e, c, c, c, c, e, e, e>>
       [] kind = kPieceO -> <<c, c, c, c>>
       [] kind = kPieceS -> <<e, c, c, c, c, e, e, e, e>>
       [] kind = kPieceT -> <<e, c, e, c, c, c, e, e, e>>
       [] kind = kPieceZ -> <<c, c, e, e, c, c, e, e, e>>

\* Piece::Piece(kind)
NewPiece(kind) ==
  [kind |-> kind, color |-> kind, bBoxSide |-> BBoxSideOf(kind),
   shape |-> InitialShape(kind), state |-> 0]

\* The shape after Piece::rotate's loops: shape_[index] is written to
\* newShape[row * bBoxSide + col] while index counts up.
RotatedShape(shape, b, right) ==
  [i \in 1 .. Len(shape) |->
     LET r == (i - 1) \div b
         c == (i - 1) % b
     IN IF right THEN shape[(b - 1 - c) * b + r + 1]
                 ELSE shape[c * b + (b - 1 - r) + 1]]

\* A rotation state that is counted up or down and never wrapped.
UnwrappedState(state, right) == IF right THEN state + 1 ELSE state - 1

\* The rotation state after Piece::rotate: +1 or -1, wrapped into 0..3.
RotatedState(state, right) ==
  LET s == IF right THEN state + 1 ELSE state - 1
  IN IF s = -1 THEN kNumStates - 1 ELSE IF s = kNumStates THEN 0 ELSE s

\* A rotate that turns the O piece like any other.
PieceRotateAnyKind(p, right) ==
  [p EXCEPT !.shape = RotatedShape(p.shape, p.bBoxSide, right),
            !.state = RotatedState(p.state, right)]

\* Piece::rotate(rotation)
PieceRotate(p, right) ==
  IF p.kind = kPieceO THEN p
  ELSE [p EXCEPT !.shape = RotatedShape(p.shape, p.bBoxSide, right),
                 !.state = RotatedState(p.state, right)]

kKicksIRight ==
  << << <<0, 0>>, <<0, -2>>, <<0, 1>>, <<1, -2>>, <<-2, 1>> >>,
     << <<0, 0>>, <<0, -1>>, <<0, 2>>, <<-2, -1>>, <<1, 2>> >>,
     << <<0, 0>>, <<0, 2>>, <<0, -1>>, <<-1, 2>>, <<2, -1>> >>,
     << <<0, 0>>, <<0, 1>>, <<0, -2>>, <<2, 1>>, <<-1, -2>> >> >>

kKicksILeft ==
  << << <<0, 0>>, <<0, -1>>, <<0, 2>>, <<-2, -1>>, <<1, 2>> >>,
     << <<0, 0>>, <<0, 2>>, <<0, -1>>, <<-1, 2>>, <<2, -1>> >>,
     << <<0, 0>>, <<0, 1>>, <<0, -2>>, <<2, 1>>, <<-1, -2>> >>,
     << <<0, 0>>, <<0, -2>>, <<0, 1>>, <<1, -2>>, <<-2, 1>> >> >>

kKicksOtherRight ==
  << << <<0, 0>>, <<0, 1>>, <<-1, -1>>, <<2, 0>>, <<2, -1>> >>,
     << <<0, 0>>, <<0, 1>>, <<1, 1>>, <<-2, 0>>, <<-2, 1>> >>,
     << <<0, 0>>, <<0, 1>>, <<-1, 1>>, <<2, 0>>, <<2, 1>> >>,
     << <<0, 0>>, <<0, -1>>, <<1, -1>>, <<-2, 0>>, <<-2, -1>> >> >>

kicksOtherLeft ==
  << << <<0, 0>>, <<0, 1>>, <<-1, 1>>, <<2, 0>>, <<2, 1>> >>,
     << <<0, 0>>, <<0, -1>>, <<1, 1>>, <<-2, 0>>, <<-2, 1>> >>,
     << <<0, 0>>, <<0, -1>>, <<-1, -1>>, <<2, 0>>, <<2, -1>> >>,
     << <<0, 0>>, <<0, -1>>, <<1, -1>>, <<-2, 0>>, <<-2, -1>> >> >>

\* Kicks that try one column to the right before the place itself.
KicksAsideFirst(p, right) == << <<0, 1>>, <<0, 0>> >>

\* Piece::kicks(rotation): the table row of the piece's current state.  The
\* O and none kinds have no table; Board::rotate never asks for theirs.
Kicks(p, right) ==
  IF p.kind = kPieceI
  THEN (IF right THEN kKicksIRight ELSE kKicksILeft)[p.state + 1]
  ELSE (IF right THEN kKicksOtherRight ELSE kicksOtherLeft)[p.state + 1]

(***************************************************************************)
(* Board                                                                   *)
(***************************************************************************)
\* Board::Board(nRows, nCols)
NewBoard(nRows, nCols) ==
  [nRows |-> nRows, nCols |-> nCols,
   tiles |-> [i \in 1 .. (nRows + kRowsAbove) * nCols |-> kEmpty],
   piece |-> NewPiece(kNone), row |-> 0, col |-> 0, ghostRow |-> 0,
   tilesAfterClear |-> << >>, linesToClear |-> << >>]

\* Board::tileAt(row, col)
TileAt(b, r, c) == b.tiles[(r + kRowsAbove) * b.nCols + c + 1]

\* Board::isTileFilled(row, col)
IsTileFilled(b, r, c) ==
  IF c < 0 \/ c >= b.nCols \/ r < -kRowsAbove \/ r >= b.nRows
  THEN TRUE
  ELSE TileAt(b, r, c) # kEmpty

\* The occupied cells of a piece, as <<pieceRow, pieceCol>> in its bounding
\* box: the cells the loops of isPositionPossible and frozePiece act on.
Cells(p) ==
  {<<pr, pc>> \in (0 .. p.bBoxSide - 1) \X (0 .. p.bBoxSide - 1) :
     p.shape[pr * p.bBoxSide + pc + 1] # kEmpty}

\* Board::isPositionPossible(row, col, piece)
IsPositionPossible(b, r, c, p) ==
  IF p.kind = kNone THEN FALSE
  ELSE \A cell \in Cells(p) : ~IsTileFilled(b, r + cell[1], c + cell[2])

\* The rows at or below g where the active piece fits in its column and
\* does not fit one row lower.
FitRows(b, g) ==
  {r \in g .. b.nRows : /\ IsPositionPossible(b, r, b.col, b.piece)
                        /\ ~IsPositionPossible(b, r + 1, b.col, b.piece)}

\* An updateGhostRow() that searches for the deepest fit instead of
\* stopping at the first blocked row.
GhostDeepest(b, g) ==
  IF FitRows(b, g) = {} THEN g
  ELSE CHOOSE r \in FitRows(b, g) : \A q \in FitRows(b, g) : q <= r

\* Board::updateGhostRow(): the loop advances ghostRow_ from row_ while the
\* row below is possible.
RECURSIVE GhostFrom(_, _)
GhostFrom(b, g) ==
  IF IsPositionPossible(b, g + 1, b.col, b.piece) THEN GhostFrom(b, g + 1) ELSE g

UpdateGhostRow(b) == [b EXCEPT !.ghostRow = GhostFrom(b, b.row)]

\* Board::isOnGround()
BoardIsOnGround(b) == ~IsPositionPossible(b, b.row + 1, b.col, b.piece)

\* Board::setTile(row, col, color): a write at the flat index.
SetTile(tiles, nCols, r, c, color) ==
  LET i == (r + kRowsAbove) * nCols + c + 1
  IN IF i \in DOMAIN tiles THEN [tiles EXCEPT ![i] = color] ELSE tiles

\* The row sweep of Board::findLinesToClear, from row r up to the top hidden
\* row.  acc.n is linesCleared; the source's running index is the last tile
\* of row r when the iteration for r starts.
RECURSIVE SweepRows(_, _, _)
SweepRows(b, r, acc) ==
  IF r < -kRowsAbove THEN acc
  ELSE LET fullRow == \A c \in 0 .. b.nCols - 1 : IsTileFilled(b, r, c)
           shift == acc.n * b.nCols
           first == (r + kRowsAbove) * b.nCols + 1
       IN IF fullRow
          THEN SweepRows(b, r - 1,
                 [acc EXCEPT !.lines = Append(acc.lines, r), !.n = acc.n + 1])
          ELSE IF acc.n > 0
          THEN SweepRows(b, r - 1,
                 [acc EXCEPT !.after =
                    [i \in DOMAIN acc.after |->
                       IF i - shift >= first /\ i - shift < first + b.nCols
                       THEN b.tiles[i - shift] ELSE acc.after[i]]])
          ELSE SweepRows(b, r - 1, acc)

\* A findLinesToClear() without the closing fill of the top rows.
FindWithoutFill(b) ==
  LET acc == SweepRows(b, b.nRows - 1,
                       [lines |-> << >>, after |-> b.tiles, n |-> 0])
  IN [b EXCEPT !.linesToClear = acc.lines, !.tilesAfterClear = acc.after]

\* Board::findLinesToClear()
FindLinesToClear(b) ==
  LET acc == SweepRows(b, b.nRows - 1,
                       [lines |-> << >>, after |-> b.tiles, n |-> 0])
  IN [b EXCEPT !.linesToClear = acc.lines,
               !.tilesAfterClear =
                 [i \in DOMAIN acc.after |->
                    IF i <= acc.n * b.nCols THEN kEmpty ELSE acc.after[i]]]

\* A clearLines() that empties the pending list and leaves the tiles.
ClearListOnly(b) == [b EXCEPT !.linesToClear = << >>]

\* Board::clearLines()
ClearLines(b) ==
  IF b.linesToClear = << >> THEN b
  ELSE [b EXCEPT !.linesToClear = << >>, !.tiles = b.tilesAfterClear]

\* A clear() that leaves the grid as it is.
BoardKeep(b) == b

\* Board::clear()
BoardClear(b) == [b EXCEPT !.tiles = [i \in DOMAIN b.tiles |-> kEmpty]]

\* The tiles after the copy loop of Board::frozePiece.
RECURSIVE FrozenTiles(_, _, _)
FrozenTiles(b, tiles, cells) ==
  IF cells = {} THEN tiles
  ELSE LET cell == CHOOSE x \in cells : TRUE
       IN FrozenTiles(b,
            SetTile(tiles, b.nCols, b.row + cell[1], b.col + cell[2],
                    b.piece.shape[cell[1] * b.piece.bBoxSide + cell[2] + 1]),
            cells \ {cell})

\* A belowSkyline that counts the hidden rows too.
OnTheGrid(b) == \E cell \in Cells(b.piece) : b.row + cell[1] >= -kRowsAbove

\* belowSkyline of Board::frozePiece: some copied cell has row >= 0.
BelowSkyline(b) == \E cell \in Cells(b.piece) : b.row + cell[1] >= 0

\* A frozePiece() that does not look for full rows.
FrozeWithoutFind(b) ==
  [b |-> [b EXCEPT !.tiles = FrozenTiles(b, b.tiles, Cells(b.piece)),
                   !.piece = NewPiece(kNone)],
   ok |-> BelowSkyline(b)]

\* Board::frozePiece(): the board after the call, and the value returned.
FrozePiece(b) ==
  LET copied == [b EXCEPT !.tiles = FrozenTiles(b, b.tiles, Cells(b.piece))]
      found == FindLinesToClear(copied)
  IN [b |-> [found EXCEPT !.piece = NewPiece(kNone)], ok |-> BelowSkyline(b)]

\* The slide of Board::spawnPiece: up to maxMoveDown rows while the next row
\* is possible.
RECURSIVE SlideDown(_, _)
SlideDown(b, left) ==
  IF left = 0 \/ ~IsPositionPossible(b, b.row + 1, b.col, b.piece) THEN b
  ELSE SlideDown([b EXCEPT !.row = b.row + 1], left - 1)

\* Board::spawnPiece(kind): the board after the call, and the value returned.
BoardSpawnPiece(b, kind) ==
  LET p == NewPiece(kind)
      placed == [b EXCEPT !.piece = p, !.row = -2,
                          !.col = (b.nCols - p.bBoxSide) \div 2]
  IN IF ~IsPositionPossible(placed, placed.row, placed.col, placed.piece)
     THEN [b |-> placed, ok |-> FALSE]
     ELSE [b |-> UpdateGhostRow(SlideDown(placed, IF kind = kPieceI THEN 1 ELSE 2)),
           ok |-> TRUE]

\* Board::moveHorizontal(dCol)
BoardMoveHorizontal(b, dCol) ==
  IF IsPositionPossible(b, b.row, b.col + dCol, b.piece)
  THEN [b |-> UpdateGhostRow([b EXCEPT !.col = b.col + dCol]), ok |-> TRUE]
  ELSE [b |-> b, ok |-> FALSE]

\* Board::moveVertical(dRow): the ghost row is not recomputed.
BoardMoveVertical(b, dRow) ==
  IF IsPositionPossible(b, b.row + dRow, b.col, b.piece)
  THEN [b |-> [b EXCEPT !.row = b.row + dRow], ok |-> TRUE]
  ELSE [b |-> b, ok |-> FALSE]

\* A kick search that settles on the last candidate that fits.
LastKick(b, testPiece, kicks, i) ==
  LET fits == {j \in i .. Len(kicks) :
                 IsPositionPossible(b, b.row + kicks[j][1], b.col + kicks[j][2], testPiece)}
  IN IF fits = {} THEN 0 ELSE CHOOSE j \in fits : \A k \in fits : k <= j

\* The kick loop of Board::rotate: the first kick, from index i on, whose
\* position is possible for the rotated piece, or 0 when none is.
RECURSIVE FirstKick(_, _, _, _)
FirstKick(b, testPiece, kicks, i) ==
  IF i > Len(kicks) THEN 0
  ELSE IF IsPositionPossible(b, b.row + kicks[i][1], b.col + kicks[i][2], testPiece)
       THEN i
       ELSE FirstKick(b, testPiece, kicks, i + 1)

\* A rotation that keeps the rotated test piece when every kick collides.
BoardRotateKeepingTestPiece(b, right) ==
  IF b.piece.kind = kPieceO \/ b.piece.kind = kNone
  THEN [b |-> b, ok |-> FALSE]
  ELSE LET testPiece == PieceRotate(b.piece, right)
           kicks == Kicks(b.piece, right)
           k == FirstKick(b, testPiece, kicks, 1)
       IN IF k = 0 THEN [b |-> [b EXCEPT !.piece = testPiece], ok |-> FALSE]
          ELSE [b |-> UpdateGhostRow([b EXCEPT !.piece = testPiece,
                                               !.row = b.row + kicks[k][1],
                                               !.col = b.col + kicks[k][2]]),
                ok |-> TRUE]

\* Board::rotate(rotation)
BoardRotate(b, right) ==
  IF b.piece.kind = kPieceO \/ b.piece.kind = kNone
  THEN [b |-> b, ok |-> FALSE]
  ELSE LET testPiece == PieceRotate(b.piece, right)
           kicks == Kicks(b.piece, right)
           k == FirstKick(b, testPiece, kicks, 1)
       IN IF k = 0 THEN [b |-> b, ok |-> FALSE]
          ELSE [b |-> UpdateGhostRow([b EXCEPT !.piece = testPiece,
                                               !.row = b.row + kicks[k][1],
                                               !.col = b.col + kicks[k][2]]),
                ok |-> TRUE]

\* Board::hardDrop(): the board after the call, and the rows passed.
BoardHardDrop(b) ==
  [b |-> [b EXCEPT !.row = b.ghostRow], rows |-> b.ghostRow - b.row]

(***************************************************************************)
(* Tetris                                                                  *)
(*                                                                         *)
(* The operators below work on a record s = [b, t, n, ev, h]: the board,   *)
(* the controller, the number of pieces drawn since the last restart, the  *)
(* events of the call in progress, and the hand: the kinds drawn since the *)
(* draw index nextPiece_ was last 0, with kNone where a restart fell among *)
(* them.  rng_ is not state of the model: every std::shuffle takes its     *)
(* outcome, a permutation, as an input.                                    *)
(***************************************************************************)
Emit(s, e) == [s EXCEPT !.ev = @ \cup {e}]

\* secondsPerLineForLevel(level), in milliseconds, rounded up: the value is
\* only compared with multiples of a millisecond.
SecondsPerLineForLevel(level) ==
  CASE level = 1 -> 1000
    [] level = 2 -> 793
    [] level = 3 -> 618
    [] OTHER -> 473

\* The permutation i -> (k*i + s) mod 7 of the positions of a bag half.
AffinePerm(k, s) == [i \in 1 .. kNumPieces |-> ((k * (i - 1) + s) % kNumPieces) + 1]

\* The outcomes std::shuffle draws from in the bounded game: the range is
\* left as it is, or its entries 0 and 2, and 1 and 3, change places.
ShuffleOutcomes == {AffinePerm(1, 0), <<3, 4, 1, 2, 5, 6, 7>>}

\* std::shuffle on a 7-entry range with outcome perm.
Shuffled(half, perm) == [i \in 1 .. kNumPieces |-> half[perm[i]]]

FrontHalf(bag) == SubSeq(bag, 1, kNumPieces)

\* Seven entries of the bag that begin one entry before the back half.
StraddlingHalf(bag) == SubSeq(bag, kNumPieces, 2 * kNumPieces - 1)

BackHalf(bag) == SubSeq(bag, kNumPieces + 1, 2 * kNumPieces)

\* The first entry of the lookahead half of the bag.
LookaheadPiece(t) == t.bag[kNumPieces + 1]

\* Tetris::nextPiece(): the kind of the piece it returns.
NextPiece(t) == t.bag[t.nextPiece + 1]

\* A spawnPiece() that leaves the count of moves while locking as it is.
SpawnPieceKeepingMoves(s, perm) ==
  LET r == BoardSpawnPiece(s.b, s.t.bag[s.t.nextPiece + 1])
      wrap == s.t.nextPiece + 1 = kNumPieces
      bag == IF wrap
             THEN BackHalf(s.t.bag) \o Shuffled(BackHalf(s.t.bag), perm)
             ELSE s.t.bag
  IN [s EXCEPT !.b = r.b,
               !.t = [@ EXCEPT !.gameOver = ~r.ok,
                               !.bag = bag,
                               !.nextPiece = IF wrap THEN 0 ELSE @ + 1],
               !.n = @ + 1,
               !.ev = @ \cup {IF r.ok THEN "spawn" ELSE "spawnBlocked"},
               !.h = IF s.t.nextPiece = 0
                     THEN <<s.t.bag[1]>>
                     ELSE Append(@, s.t.bag[s.t.nextPiece + 1])]

\* Tetris::spawnPiece(); perm is the outcome of its std::shuffle.
TetrisSpawnPiece(s, perm) ==
  LET r == BoardSpawnPiece(s.b, s.t.bag[s.t.nextPiece + 1])
      wrap == s.t.nextPiece + 1 = kNumPieces
      bag == IF wrap
             THEN BackHalf(s.t.bag) \o Shuffled(BackHalf(s.t.bag), perm)
             ELSE s.t.bag
  IN [s EXCEPT !.b = r.b,
               !.t = [@ EXCEPT !.gameOver = ~r.ok,
                               !.bag = bag,
                               !.nextPiece = IF wrap THEN 0 ELSE @ + 1,
                               !.nMovesWhileLocking = 0],
               !.n = @ + 1,
               !.ev = @ \cup {IF r.ok THEN "spawn" ELSE "spawnBlocked"},
               !.h = IF s.t.nextPiece = 0
                     THEN <<s.t.bag[1]>>
                     ELSE Append(@, s.t.bag[s.t.nextPiece + 1])]

\* A lock() that spawns the next piece whether or not a row is complete.
LockAlwaysSpawning(s, perm) ==
  LET f == FrozePiece(s.b)
      s1 == [s EXCEPT !.b = f.b,
                      !.t = [@ EXCEPT !.lockingTimer = 0, !.isOnGround = FALSE],
                      !.ev = @ \cup {"lock"}]
  IN IF ~f.ok
     THEN Emit([s1 EXCEPT !.t = [@ EXCEPT !.gameOver = TRUE]], "overflow")
     ELSE TetrisSpawnPiece(s1, perm)

\* Tetris::lock()
Lock(s, perm) ==
  LET f == FrozePiece(s.b)
      s1 == [s EXCEPT !.b = f.b,
                      !.t = [@ EXCEPT !.lockingTimer = 0, !.isOnGround = FALSE],
                      !.ev = @ \cup {"lock"}]
  IN IF ~f.ok
     THEN Emit([s1 EXCEPT !.t = [@ EXCEPT !.gameOver = TRUE]], "overflow")
     ELSE IF Len(f.b.linesToClear) = 0
     THEN TetrisSpawnPiece(s1, perm)
     ELSE [s1 EXCEPT !.t = [@ EXCEPT !.pausedForLinesClear = TRUE,
                                     !.linesClearTimer = 0]]

\* A checkLock() that locks on the timer alone.
CheckLockByTimer(s, perm) ==
  IF ~BoardIsOnGround(s.b)
  THEN [s EXCEPT !.t = [@ EXCEPT !.isOnGround = FALSE]]
  ELSE IF s.t.lockingTimer >= kLockDownTimeLimit
       THEN Lock([s EXCEPT !.t = [@ EXCEPT !.isOnGround = TRUE]], perm)
       ELSE [s EXCEPT !.t = [@ EXCEPT !.isOnGround = TRUE]]

\* A checkLock() that forgets the counted moves of a piece off the ground.
CheckLockResettingMoves(s, perm) ==
  IF ~BoardIsOnGround(s.b)
  THEN [s EXCEPT !.t = [@ EXCEPT !.isOnGround = FALSE, !.nMovesWhileLocking = 0]]
  ELSE LET s1 == [s EXCEPT !.t = [@ EXCEPT !.isOnGround = TRUE]]
       IN IF \/ s1.t.lockingTimer >= kLockDownTimeLimit
             \/ s1.t.nMovesWhileLocking >= kLockDownMovesLimit
          THEN Lock(s1, perm)
          ELSE s1

\* Tetris::checkLock()
CheckLock(s, perm) ==
  IF ~BoardIsOnGround(s.b)
  THEN [s EXCEPT !.t = [@ EXCEPT !.isOnGround = FALSE]]
  ELSE LET s1 == [s EXCEPT !.t = [@ EXCEPT !.isOnGround = TRUE]]
       IN IF \/ s1.t.lockingTimer >= kLockDownTimeLimit
             \/ s1.t.nMovesWhileLocking >= kLockDownMovesLimit
          THEN Lock(s1, perm)
          ELSE s1

\* The move of a grounded piece that moveHorizontal and rotate count: the
\* locking timer restarts and nMovesWhileLocking_ grows by one.  The call is
\* marked "cap" when the count reaches kLockDownMovesLimit_.
CountMove(s) ==
  [s EXCEPT !.t = [@ EXCEPT !.lockingTimer = 0, !.nMovesWhileLocking = @ + 1],
            !.ev = IF s.t.nMovesWhileLocking + 1 = kLockDownMovesLimit
                   THEN @ \cup {"cap"} ELSE @]

\* Tetris::moveHorizontal(dCol)
TetrisMoveHorizontal(s, dCol) ==
  LET r == BoardMoveHorizontal(s.b, dCol)
  IN IF r.ok /\ s.t.isOnGround
     THEN CountMove([s EXCEPT !.b = r.b])
     ELSE [s EXCEPT !.b = r.b]

\* Tetris::rotate(rotation)
TetrisRotate(s, right, perm) ==
  LET r == BoardRotate(s.b, right)
      s1 == IF r.ok /\ s.t.isOnGround
            THEN CountMove([s EXCEPT !.b = r.b])
            ELSE [s EXCEPT !.b = r.b]
  IN CheckLock(s1, perm)

\* A hardDrop() that leaves the lock to checkLock.
HardDropThenCheckLock(s, perm) ==
  IF s.b.piece.kind = kNone THEN s
  ELSE LET r == BoardHardDrop(s.b)
       IN CheckLock([s EXCEPT !.b = r.b,
                              !.t = [@ EXCEPT !.score = @ + 2 * s.t.level * r.rows]],
                    perm)

\* Tetris::hardDrop()
TetrisHardDrop(s, perm) ==
  IF s.b.piece.kind = kNone THEN s
  ELSE LET r == BoardHardDrop(s.b)
       IN Lock([s EXCEPT !.b = r.b,
                         !.t = [@ EXCEPT !.score = @ + 2 * s.t.level * r.rows]],
               perm)

\* A timer advanced by one step.  moveRepeatTimer_ and moveRepeatDelayTimer_
\* grow without bound while no move resets them and are read only by >=
\* against their limit, so the model holds them at the limit once reached.
Advance(timer, step, limit) == Min(timer + step, limit)

\* An arbitration in which right wins whenever both keys are down.
ResolveRightFirst(t, moveRight, moveLeft) ==
  IF moveLeft /\ moveRight THEN <<TRUE, FALSE>> ELSE <<moveRight, moveLeft>>

\* The inputs of Tetris::update after the both-pressed arbitration:
\* <<moveRight, moveLeft>>.
Resolve(t, moveRight, moveLeft) ==
  IF moveLeft /\ moveRight
  THEN IF ~t.moveRightPrev THEN <<TRUE, FALSE>>
       ELSE IF ~t.moveLeftPrev THEN <<FALSE, TRUE>>
       ELSE IF t.motion = "left" THEN <<FALSE, TRUE>>
       ELSE <<TRUE, FALSE>>
  ELSE <<moveRight, moveLeft>>

\* A move processing that moves in every update in which the key is down.
HoldMoveEveryUpdate(s, dir, dCol) ==
  LET s1 == TetrisMoveHorizontal(
              [s EXCEPT !.t = [@ EXCEPT !.moveRepeatTimer = 0,
                                        !.moveRepeatDelayTimer =
                                          IF s.t.motion # dir THEN 0 ELSE @]], dCol)
  IN [s1 EXCEPT !.t = [@ EXCEPT !.motion = dir]]

\* One branch of the move processing of Tetris::update: the key for motion
\* dir (dCol) is pressed.
HoldMove(s, dir, dCol) ==
  LET s1 == IF s.t.motion # dir
            THEN TetrisMoveHorizontal(
                   [s EXCEPT !.t = [@ EXCEPT !.moveRepeatDelayTimer = 0,
                                             !.moveRepeatTimer = 0]], dCol)
            ELSE IF /\ s.t.moveRepeatDelayTimer >= kMoveRepeatDelay
                    /\ s.t.moveRepeatTimer >= kMoveDelay
            THEN TetrisMoveHorizontal(
                   [s EXCEPT !.t = [@ EXCEPT !.moveRepeatTimer = 0]], dCol)
            ELSE s
  IN [s1 EXCEPT !.t = [@ EXCEPT !.motion = dir]]

\* An update in which gravity moves the piece before the keys do.
UpdateFallingFirst(s, softDrop, moveRight, moveLeft, perm) ==
  LET step == s.t.timeStep
      s1 == [s EXCEPT !.t = [@ EXCEPT
               !.moveDownTimer = @ + step,
               !.moveRepeatTimer = Advance(@, step, kMoveDelay),
               !.moveRepeatDelayTimer = Advance(@, step, kMoveRepeatDelay),
               !.lockingTimer = IF s.t.isOnGround THEN @ + step ELSE 0]]
      speedFactor == IF softDrop THEN kSoftDropSpeedFactor ELSE 1
      s2 == IF s1.t.moveDownTimer * speedFactor >= s1.t.secondsPerLine
            THEN [s1 EXCEPT !.b = BoardMoveVertical(s1.b, 1).b,
                            !.t = [@ EXCEPT !.moveDownTimer = 0]]
            ELSE s1
      in == Resolve(s2.t, moveRight, moveLeft)
      s3 == IF in[1] THEN HoldMove(s2, "right", 1)
            ELSE IF in[2] THEN HoldMove(s2, "left", -1)
            ELSE [s2 EXCEPT !.t = [@ EXCEPT !.motion = "none"]]
      s4 == [s3 EXCEPT !.t = [@ EXCEPT !.moveLeftPrev = moveLeft,
                                       !.moveRightPrev = moveRight]]
  IN CheckLock(s4, perm)

\* Tetris::update from the timer increments on (the part after the pause
\* handling).
UpdateRunning(s, softDrop, moveRight, moveLeft, perm) ==
  LET step == s.t.timeStep
      s1 == [s EXCEPT !.t = [@ EXCEPT
               !.moveDownTimer = @ + step,
               !.moveRepeatTimer = Advance(@, step, kMoveDelay),
               !.moveRepeatDelayTimer = Advance(@, step, kMoveRepeatDelay),
               !.lockingTimer = IF s.t.isOnGround THEN @ + step ELSE 0]]
      in == Resolve(s1.t, moveRight, moveLeft)
      s2 == IF in[1] THEN HoldMove(s1, "right", 1)
            ELSE IF in[2] THEN HoldMove(s1, "left", -1)
            ELSE [s1 EXCEPT !.t = [@ EXCEPT !.motion = "none"]]
      s3 == [s2 EXCEPT !.t = [@ EXCEPT !.moveLeftPrev = moveLeft,
                                       !.moveRightPrev = moveRight]]
      speedFactor == IF softDrop THEN kSoftDropSpeedFactor ELSE 1
      s4 == IF s3.t.moveDownTimer * speedFactor >= s3.t.secondsPerLine
            THEN [s3 EXCEPT !.b = BoardMoveVertical(s3.b, 1).b,
                            !.t = [@ EXCEPT !.moveDownTimer = 0]]
            ELSE s3
  IN CheckLock(s4, perm)

\* update ending the pause at the first call, whatever the pause timer.
UpdateEndingPauseAtOnce(s, softDrop, moveRight, moveLeft, perm) ==
  IF s.t.pausedForLinesClear
  THEN LET s1 == [s EXCEPT !.t = [@ EXCEPT !.linesClearTimer = @ + s.t.timeStep]]
           s2 == Emit([s1 EXCEPT !.b = ClearLines(s1.b)], "clear")
           s3 == TetrisSpawnPiece(s2, perm)
           s4 == [s3 EXCEPT !.t = [@ EXCEPT !.pausedForLinesClear = FALSE]]
       IN UpdateRunning(s4, softDrop, moveRight, moveLeft, perm)
  ELSE UpdateRunning(s, softDrop, moveRight, moveLeft, perm)

\* update without the early return of the pause.
UpdateThroughPause(s, softDrop, moveRight, moveLeft, perm) ==
  IF s.t.pausedForLinesClear
  THEN UpdateRunning([s EXCEPT !.t = [@ EXCEPT !.linesClearTimer = @ + s.t.timeStep]],
                     softDrop, moveRight, moveLeft, perm)
  ELSE UpdateRunning(s, softDrop, moveRight, moveLeft, perm)

\* Tetris::update(softDrop, moveRight, moveLeft)
TetrisUpdate(s, softDrop, moveRight, moveLeft, perm) ==
  IF s.t.pausedForLinesClear
  THEN LET s1 == [s EXCEPT !.t = [@ EXCEPT !.linesClearTimer = @ + s.t.timeStep]]
       IN IF s1.t.linesClearTimer < kPauseAfterLineClear
          THEN s1
          ELSE LET s2 == Emit([s1 EXCEPT !.b = ClearLines(s1.b)], "clear")
                   s3 == TetrisSpawnPiece(s2, perm)
                   s4 == [s3 EXCEPT !.t = [@ EXCEPT !.pausedForLinesClear = FALSE]]
               IN UpdateRunning(s4, softDrop, moveRight, moveLeft, perm)
  ELSE UpdateRunning(s, softDrop, moveRight, moveLeft, perm)

\* Tetris::restart(level); perm1 and perm2 are the outcomes of its shuffles,
\* perm3 that of the shuffle in spawnPiece (taken only on a bag wrap).
TetrisRestart(s, level, perm1, perm2, perm3) ==
  LET bag == Shuffled(FrontHalf(s.t.bag), perm1) \o Shuffled(BackHalf(s.t.bag), perm2)
      s1 == [s EXCEPT !.b = BoardClear(s.b),
                      !.t = [@ EXCEPT !.gameOver = FALSE,
                                      !.level = level,
                                      !.secondsPerLine = SecondsPerLineForLevel(level),
                                      !.linesCleared = 0,
                                      !.score = 0,
                                      !.motion = "none",
                                      !.moveLeftPrev = FALSE,
                                      !.moveRightPrev = FALSE,
                                      !.moveDownTimer = 0,
                                      !.moveRepeatTimer = 0,
                                      !.moveRepeatDelayTimer = 0,
                                      !.isOnGround = FALSE,
                                      !.lockingTimer = 0,
                                      !.pausedForLinesClear = FALSE,
                                      !.linesClearTimer = 0,
                                      !.bag = bag],
                      !.n = 0,
                      !.h = Append(@, kNone)]
  IN TetrisSpawnPiece(s1, perm3)

\* Tetris::Tetris(board, timeStep, randomSeed) up to its call of restart(1).
\* The members restart and spawnPiece assign before any read start at 0.
NewTetris(timeStep) ==
  [gameOver |-> FALSE, timeStep |-> timeStep,
   bag |-> [i \in 1 .. 2 * kNumPieces |-> (i - 1) % kNumPieces],
   nextPiece |-> 0, level |-> 0, linesCleared |-> 0, score |-> 0,
   secondsPerLine |-> 0, moveDownTimer |-> 0, motion |-> "none",
   moveLeftPrev |-> FALSE, moveRightPrev |-> FALSE,
   moveRepeatDelayTimer |-> 0, moveRepeatTimer |-> 0,
   isOnGround |-> FALSE, lockingTimer |-> 0, nMovesWhileLocking |-> 0,
   pausedForLinesClear |-> FALSE, linesClearTimer |-> 0]

(***************************************************************************)
(* The state machine                                                       *)
(***************************************************************************)
St == [b |-> board, t |-> tetris, n |-> drawn, ev |-> {}, h |-> hand]

\* The state after a call that leaves s.  K bounds the run: a call that
\* would draw more than K.draws pieces in the first session (K.redraws in
\* a session begun by restart), or count more than K.moves moves of a
\* grounded piece, is outside the bounded model.  `events` becomes the
\* events of the call, `blocked` whether a spawn has been blocked since the
\* last restart.
Becomes(s, K) ==
  /\ s.n <= (IF restarts = 0 THEN K.draws ELSE K.redraws)
  /\ s.t.nMovesWhileLocking <= K.moves
  /\ board' = s.b
  /\ tetris' = s.t
  /\ drawn' = s.n
  /\ events' = s.ev
  /\ blocked' = IF "restart" \in s.ev THEN "spawnBlocked" \in s.ev
                ELSE blocked \/ "spawnBlocked" \in s.ev
  /\ hand' = IF K.track THEN s.h ELSE << >>

Identity == AffinePerm(1, 0)

\* The shuffle outcomes a call can consume: spawnPiece shuffles only when
\* the draw wraps the index.
SpawnShuffles(K) ==
  IF tetris.nextPiece + 1 = kNumPieces THEN K.shuffles ELSE {Identity}

\* Board board(nRows, nCols); tetris = new Tetris(board, timeStep, seed)
Constructed(nRows, nCols, timeStep, perm1, perm2) ==
  TetrisRestart([b |-> NewBoard(nRows, nCols), t |-> NewTetris(timeStep),
                 n |-> 0, ev |-> {"construct"}, h |-> << >>],
                1, perm1, perm2, Identity)

InitWith(nRows, nCols, timeStep, K) ==
  \E perm1 \in K.shuffles, perm2 \in K.shuffles :
    LET s == Constructed(nRows, nCols, timeStep, perm1, perm2)
    IN /\ board = s.b
       /\ tetris = s.t
       /\ drawn = s.n
       /\ restarts = 0
       /\ events = s.ev
       /\ blocked = ("spawnBlocked" \in s.ev)
       /\ hand = IF K.track THEN s.h ELSE << >>

\* The start position of Board::spawnPiece(kind) collides on board b.
StartCollides(b, kind) ==
  LET p == NewPiece(kind)
  IN ~IsPositionPossible(b, -2, (b.nCols - p.bBoxSide) \div 2, p)

\* restart(level).  The call is marked "preoccupied" when the tiles it finds
\* would block the piece it spawns.
Restart(K) ==
  \E level \in K.levels, perm1 \in K.shuffles, perm2 \in K.shuffles,
     perm3 \in SpawnShuffles(K) :
    /\ restarts < K.restarts
    /\ LET s == TetrisRestart(Emit(St, "restart"), level, perm1, perm2, perm3)
       IN Becomes(IF StartCollides(board, s.b.piece.kind)
                  THEN Emit(s, "preoccupied") ELSE s, K)
    /\ restarts' = restarts + 1

Update(K) ==
  \E in \in K.inputs, perm \in SpawnShuffles(K) :
    /\ Becomes(TetrisUpdate(Emit(St, "update"), in[1], in[2], in[3], perm), K)
    /\ UNCHANGED restarts

Rotate(K) ==
  \E right \in BOOLEAN, perm \in SpawnShuffles(K) :
    /\ Becomes(TetrisRotate(Emit(St, "rotate"), right, perm), K)
    /\ UNCHANGED restarts

HardDrop(K) ==
  \E perm \in SpawnShuffles(K) :
    /\ Becomes(TetrisHardDrop(Emit(St, "hardDrop"), perm), K)
    /\ UNCHANGED restarts

AllInputs == BOOLEAN \X BOOLEAN \X BOOLEAN

Play ==
  [draws |-> MaxDraws, redraws |-> MaxRedraws, moves |-> MaxMoves, restarts |-> MaxRestarts,
   levels |-> 1 .. MaxLevel,
   inputs |-> AllInputs, shuffles |-> ShuffleOutcomes, track |-> FALSE]

Init == InitWith(BoardRows, BoardCols, TimeStepMs, Play)

Next == Restart(Play) \/ Update(Play) \/ Rotate(Play) \/ HardDrop(Play)

Spec == Init /\ [][Next]_vars

(***************************************************************************)
(* A game of three pieces drawn in the order O, L, S, without restart: on  *)
(* this board the first two can complete the bottom row under a filled     *)
(* row, or build an overhang in the hidden rows that blocks the third.     *)
(***************************************************************************)
\* Pieces drawn from the bag in the three-piece game.
StackDraws == 3

\* The shuffle outcome that brings O, L and S to the front of the bag.
StackShuffle == <<4, 3, 5, 1, 2, 6, 7>>

Stack ==
  [draws |-> StackDraws, redraws |-> 0, moves |-> MaxMoves, restarts |-> 0,
   levels |-> {1}, inputs |-> AllInputs, shuffles |-> {StackShuffle},
   track |-> FALSE]

StackInit == InitWith(BoardRows, BoardCols, TimeStepMs, Stack)

StackNext == Update(Stack) \/ Rotate(Stack) \/ HardDrop(Stack)

StackSpec == StackInit /\ [][StackNext]_vars

(***************************************************************************)
(* A game of two pieces in which the moves of a grounded piece are counted *)
(* up to the limit kLockDownMovesLimit_.                                   *)
(***************************************************************************)
\* Pieces drawn from the bag in the game of counted moves.
CapDraws == 2

Cap ==
  [draws |-> CapDraws, redraws |-> 0, moves |-> kLockDownMovesLimit,
   restarts |-> 0, levels |-> {1}, inputs |-> AllInputs, shuffles |-> {Identity},
   track |-> FALSE]

CapInit == InitWith(BoardRows, BoardCols, TimeStepMs, Cap)

CapNext == Update(Cap) \/ Rotate(Cap) \/ HardDrop(Cap)

CapSpec == CapInit /\ [][CapNext]_vars

\* The same game with room for one counted move more than the cap.
PastCap == [Cap EXCEPT !.moves = kLockDownMovesLimit + 1]

PastCapNext == Update(PastCap) \/ Rotate(PastCap) \/ HardDrop(PastCap)

PastCapSpec == CapInit /\ [][PastCapNext]_vars

\* A call of update, as Update(K), with the state the handler leaves
\* computed once per input (as the one element of the image of {St}).
UpdateCalled(K) ==
  \E in \in K.inputs, perm \in SpawnShuffles(K) :
    \E s \in BagToSet(BagOfAll(
                LAMBDA x : TetrisUpdate(Emit(x, "update"), in[1], in[2], in[3], perm),
                SetToBag({St}))) :
      /\ Becomes(s, K)
      /\ UNCHANGED restarts

\* The game of counted moves in which the main loop calls update in every
\* frame: update is called again and again.
CapFairSpec == CapSpec /\ WF_vars(UpdateCalled(Cap))

(***************************************************************************)
(* A long game on a tall board: every piece is hard dropped where it       *)
(* spawns, so that the bag is dealt through more than twice, and the game  *)
(* may be restarted in the middle of a bag.  No row ever fills: the pieces *)
(* never reach the last column.                                            *)
(***************************************************************************)
\* The tall board.
BagBoardRows == 30
BagBoardCols == 5

\* Pieces drawn from the bag before and after the restart of the long game.
BagDraws == 15
BagRedraws == 8

\* The outcomes std::shuffle draws from in the long game: the range is left
\* as it is, rotated by three places, or reversed.
BagShuffles == {AffinePerm(1, 0), AffinePerm(1, 3), AffinePerm(6, 6)}

Bag ==
  [draws |-> BagDraws, redraws |-> BagRedraws, moves |-> 0, restarts |-> 1,
   levels |-> {1}, inputs |-> {}, shuffles |-> BagShuffles, track |-> TRUE]

BagInit == InitWith(BagBoardRows, BagBoardCols, TimeStepMs, Bag)

BagNext == HardDrop(Bag) \/ Restart(Bag)

BagSpec == BagInit /\ [][BagNext]_vars

(***************************************************************************)
(* A game of two pieces on a board one row taller, on which the piece      *)
(* spawned at the end of a line-clear pause is still in the air after the  *)
(* update that spawned it.  The first piece, I, fills a row of the board.  *)
(***************************************************************************)
\* The rows of the taller board, and the pieces drawn from the bag.
PauseBoardRows == 4
PauseDraws == 2

Pause ==
  [draws |-> PauseDraws, redraws |-> 0, moves |-> MaxMoves, restarts |-> 0,
   levels |-> {1}, inputs |-> AllInputs, shuffles |-> {Identity},
   track |-> FALSE]

PauseInit == InitWith(PauseBoardRows, BoardCols, TimeStepMs, Pause)

PauseNext == Update(Pause) \/ Rotate(Pause) \/ HardDrop(Pause)

PauseSpec == PauseInit /\ [][PauseNext]_vars

(***************************************************************************)
(* The same game with a timestep shorter than the pause after a line       *)
(* clear and than the lock delay: a pause lasts two updates, and a piece   *)
(* on the ground is locked by the second update after it has landed.       *)
(***************************************************************************)
\* The short timestep, in milliseconds.
ShortStepMs == 200

ShortStepInit == InitWith(PauseBoardRows, BoardCols, ShortStepMs, Pause)

ShortStepSpec == ShortStepInit /\ [][PauseNext]_vars

\* The game with the short timestep in which the main loop calls update
\* again and again; the keys are either all up, or soft drop and right are
\* down.
FewInputs == {<<FALSE, FALSE, FALSE>>, <<TRUE, TRUE, FALSE>>}

ShortFair == [Pause EXCEPT !.inputs = FewInputs]

ShortStepFairInit == InitWith(PauseBoardRows, BoardCols, ShortStepMs, ShortFair)

ShortStepFairNext == Update(ShortFair) \/ Rotate(ShortFair) \/ HardDrop(ShortFair)

ShortStepFairSpec ==
  ShortStepFairInit /\ [][ShortStepFairNext]_vars /\ WF_vars(UpdateCalled(ShortFair))

(***************************************************************************)
(* The game with the short timestep in which the keys of the last update   *)
(* are on record: after a call of update, `hand` is the triple of its      *)
(* arguments <<softDrop, moveRight, moveLeft>>, and after any other call   *)
(* it is empty.                                                            *)
(***************************************************************************)
KeysInit == InitWith(BoardRows, BoardCols, ShortStepMs, Pause)

\* The left and right keys in every combination, the soft drop key up.
DirectionKeys == {FALSE} \X BOOLEAN \X BOOLEAN

\* update(softDrop, moveRight, moveLeft), the arguments put on record.
KeysUpdate ==
  \E in \in DirectionKeys, perm \in SpawnShuffles(Pause) :
    LET s == TetrisUpdate(Emit(St, "update"), in[1], in[2], in[3], perm)
    IN /\ s.n <= Pause.draws
       /\ s.t.nMovesWhileLocking <= Pause.moves
       /\ board' = s.b
       /\ tetris' = s.t
       /\ drawn' = s.n
       /\ events' = s.ev
       /\ blocked' = (blocked \/ "spawnBlocked" \in s.ev)
       /\ hand' = in
       /\ UNCHANGED restarts

KeysNext == KeysUpdate \/ Rotate(Pause) \/ HardDrop(Pause)

KeysSpec == KeysInit /\ [][KeysNext]_vars

(***************************************************************************)
(* One piece under held keys, with a timestep that divides the repeat      *)
(* interval kMoveDelay_: the initial delay lasts six updates and the       *)
(* repeat interval two.  `hand` keeps the watch of an observer of the      *)
(* keys: <<the time the resolved direction has been held, the time since   *)
(* the last move was due, whether a move is due in this update>>, each     *)
(* time held at its limit once reached.                                    *)
(***************************************************************************)
\* The timestep of the game under held keys, in milliseconds.
DasStepMs == 25
\* The columns of its board: the O piece has two free columns to its right.
DasBoardCols == 5

Das ==
  [draws |-> 1, redraws |-> 0, moves |-> MaxMoves, restarts |-> 0,
   levels |-> {1}, inputs |-> DirectionKeys, shuffles |-> {StackShuffle},
   track |-> FALSE]

DasInit == InitWith(BoardRows, DasBoardCols, DasStepMs, Das)

\* The watch after an update that leaves the motion `motion`.
Watch(motion) ==
  IF motion = "none" THEN <<0, 0, FALSE>>
  ELSE IF motion # tetris.motion THEN <<0, 0, TRUE>>
  ELSE LET held == Min(hand[1] + tetris.timeStep, kMoveRepeatDelay)
           waited == Min(hand[2] + tetris.timeStep, kMoveDelay)
           due == held >= kMoveRepeatDelay /\ waited >= kMoveDelay
       IN <<held, IF due THEN 0 ELSE waited, due>>

\* update(false, moveRight, moveLeft), watched.
DasUpdate ==
  \E in \in Das.inputs :
    LET s == TetrisUpdate(Emit(St, "update"), in[1], in[2], in[3], Identity)
    IN /\ s.n <= Das.draws
       /\ s.t.nMovesWhileLocking <= Das.moves
       /\ board' = s.b
       /\ tetris' = s.t
       /\ drawn' = s.n
       /\ events' = s.ev
       /\ blocked' = (blocked \/ "spawnBlocked" \in s.ev)
       /\ hand' = Watch(s.t.motion)
       /\ UNCHANGED restarts

DasSpec == DasInit /\ [][DasUpdate]_vars

(***************************************************************************)
(* Two pieces falling on the same board: gravity is due every twenty-five  *)
(* updates, and every two under soft drop.  After a call of update `hand`  *)
(* is the triple of its arguments.                                         *)
(***************************************************************************)
\* The timestep of the game of falling pieces, in milliseconds.
FallStepMs == 40

\* The soft drop key up or down, and at most one of right and left down.
DropKeys == {in \in AllInputs : ~(in[2] /\ in[3])}

\* Two pieces are drawn: the second falls beside or onto the first.
Fall == [Das EXCEPT !.draws = 2, !.inputs = DropKeys]

\* update(softDrop, moveRight, moveLeft), the arguments put on record.
FallUpdate ==
  \E in \in Fall.inputs :
    LET s == TetrisUpdate(Emit(St, "update"), in[1], in[2], in[3], Identity)
    IN /\ s.n <= Fall.draws
       /\ s.t.nMovesWhileLocking <= Fall.moves
       /\ board' = s.b
       /\ tetris' = s.t
       /\ drawn' = s.n
       /\ events' = s.ev
       /\ blocked' = (blocked \/ "spawnBlocked" \in s.ev)
       /\ hand' = in
       /\ UNCHANGED restarts

FallInit == InitWith(BoardRows, DasBoardCols, FallStepMs, Fall)

FallSpec == FallInit /\ [][FallUpdate]_vars

(***************************************************************************)
(* The application of game.cpp: the state of the application, the key      *)
(* flags, the GLFW callbacks and the iterations of the main loop, around   *)
(* the one controller that main constructs.  `hand` holds gameState and    *)
(* the flags softDrop, moveRight and moveLeft.                              *)
(***************************************************************************)
\* Rows of the board of the application, and pieces drawn in one run.
AppBoardRows == 2
AppDraws == 2

App ==
  [draws |-> AppDraws, redraws |-> 0, moves |-> MaxMoves, restarts |-> 0,
   levels |-> {1}, inputs |-> AllInputs, shuffles |-> {StackShuffle},
   track |-> FALSE]

\* The keys that keyCallback reads, and the actions GLFW reports for a key.
AppKeys ==
  {"GLFW_KEY_Z", "GLFW_KEY_X", "GLFW_KEY_SPACE", "GLFW_KEY_LEFT",
   "GLFW_KEY_RIGHT", "GLFW_KEY_DOWN", "GLFW_KEY_ESCAPE", "GLFW_KEY_ENTER"}

KeyActions == {"GLFW_PRESS", "GLFW_RELEASE", "GLFW_REPEAT"}

\* The globals of game.cpp when main enters its loop.
AppInit ==
  \E perm1 \in App.shuffles, perm2 \in App.shuffles :
    LET s == Constructed(AppBoardRows, BoardCols, TimeStepMs, perm1, perm2)
    IN /\ board = s.b
       /\ tetris = s.t
       /\ drawn = s.n
       /\ restarts = 0
       /\ events = s.ev
       /\ blocked = ("spawnBlocked" \in s.ev)
       /\ hand = [gameState |-> "kGameStart", softDrop |-> FALSE,
                  moveRight |-> FALSE, moveLeft |-> FALSE]

\* gameState and the key flags after keyCallback(key, action) in state h.
KeyState(h, key, action) ==
  CASE h.gameState = "kGameRun" ->
         IF action = "GLFW_PRESS"
         THEN CASE key = "GLFW_KEY_LEFT" -> [h EXCEPT !.moveLeft = TRUE]
                [] key = "GLFW_KEY_RIGHT" -> [h EXCEPT !.moveRight = TRUE]
                [] key = "GLFW_KEY_DOWN" -> [h EXCEPT !.softDrop = TRUE]
                [] key = "GLFW_KEY_ESCAPE" -> [h EXCEPT !.gameState = "kGamePaused"]
                [] OTHER -> h
         ELSE IF action = "GLFW_RELEASE"
         THEN CASE key = "GLFW_KEY_LEFT" -> [h EXCEPT !.moveLeft = FALSE]
                [] key = "GLFW_KEY_RIGHT" -> [h EXCEPT !.moveRight = FALSE]
                [] key = "GLFW_KEY_DOWN" -> [h EXCEPT !.softDrop = FALSE]
                [] OTHER -> h
         ELSE h
    [] h.gameState = "kGamePaused" ->
         IF key = "GLFW_KEY_ESCAPE" /\ action = "GLFW_PRESS"
         THEN [h EXCEPT !.gameState = "kGameRun"]
         ELSE IF key = "GLFW_KEY_ENTER" /\ action = "GLFW_PRESS"
         THEN [h EXCEPT !.gameState = "kGameStart"]
         ELSE h
    [] h.gameState = "kGameOver" ->
         IF key = "GLFW_KEY_ENTER" /\ action = "GLFW_PRESS"
         THEN [h EXCEPT !.gameState = "kGameStart"]
         ELSE h
    [] OTHER ->
         IF key = "GLFW_KEY_ENTER" /\ action = "GLFW_PRESS"
         THEN [gameState |-> "kGameRun", softDrop |-> FALSE,
               moveRight |-> FALSE, moveLeft |-> FALSE]
         ELSE h

\* The controller and its board as the callbacks and the loop find them.
AppSt == [St EXCEPT !.h = << >>]

\* The state after a callback or a loop iteration that leaves the
\* controller as s and the globals of game.cpp as h.
AppBecomes(s, h) ==
  /\ s.n <= App.draws
  /\ s.t.nMovesWhileLocking <= App.moves
  /\ board' = s.b
  /\ tetris' = s.t
  /\ drawn' = s.n
  /\ events' = s.ev
  /\ blocked' = (blocked \/ "spawnBlocked" \in s.ev)
  /\ hand' = h
  /\ UNCHANGED restarts

\* keyCallback(window, key, scancode, action, mods).  The call is marked
\* "start" when it takes the application from kGameStart to kGameRun.
KeyCallback ==
  \E key \in AppKeys, action \in KeyActions, perm \in SpawnShuffles(App) :
    LET pressed == hand.gameState = "kGameRun" /\ action = "GLFW_PRESS"
        called == Emit(AppSt, "keyCallback")
        s == IF pressed /\ key = "GLFW_KEY_Z"
             THEN TetrisRotate(Emit(called, "rotate"), FALSE, perm)
             ELSE IF pressed /\ key = "GLFW_KEY_X"
             THEN TetrisRotate(Emit(called, "rotate"), TRUE, perm)
             ELSE IF pressed /\ key = "GLFW_KEY_SPACE"
             THEN TetrisHardDrop(Emit(called, "hardDrop"), perm)
             ELSE called
        h == KeyState(hand, key, action)
    IN AppBecomes(IF hand.gameState = "kGameStart" /\ h.gameState = "kGameRun"
                  THEN Emit(s, "start") ELSE s, h)

\* windowFocusCallback(window, focused)
WindowFocusCallback ==
  \E focused \in BOOLEAN :
    AppBecomes(Emit(AppSt, "windowFocusCallback"),
               IF ~focused /\ hand.gameState = "kGameRun"
               THEN [hand EXCEPT !.gameState = "kGamePaused"] ELSE hand)

\* One iteration of the loop of main, after glfwPollEvents.
MainLoop ==
  \E perm \in SpawnShuffles(App) :
    IF hand.gameState = "kGameRun"
    THEN LET s == TetrisUpdate(Emit(Emit(AppSt, "main"), "update"),
                               hand.softDrop, hand.moveRight, hand.moveLeft, perm)
         IN AppBecomes(s, IF s.t.gameOver
                          THEN [hand EXCEPT !.gameState = "kGameOver"] ELSE hand)
    ELSE AppBecomes(Emit(AppSt, "main"), hand)

AppNext == KeyCallback \/ WindowFocusCallback \/ MainLoop

AppSpec == AppInit /\ [][AppNext]_vars

(***************************************************************************)
(* The stacking game with one piece more: the piece spawned when a         *)
(* line-clear pause ends can be locked, and followed by the next, in the   *)
(* update that spawned it.                                                 *)
(***************************************************************************)
\* Pieces drawn from the bag in the longer stacking game.
LongStackDraws == 4

LongStack ==
  [draws |-> LongStackDraws, redraws |-> 0, moves |-> MaxMoves, restarts |-> 0,
   levels |-> {1}, inputs |-> AllInputs, shuffles |-> {StackShuffle},
   track |-> FALSE]

LongStackInit == InitWith(BoardRows, BoardCols, TimeStepMs, LongStack)

LongStackNext == Update(LongStack) \/ Rotate(LongStack) \/ HardDrop(LongStack)

LongStackSpec == LongStackInit /\ [][LongStackNext]_vars

(***************************************************************************)
(* Piece::rotate on its own: a piece of each kind is constructed and       *)
(* rotated up to MaxTurns times, to the right or to the left.  The piece   *)
(* is kept in the piece field of an empty board; the hand is the sequence  *)
(* of the rotations made, TRUE for Rotation::kRight.                       *)
(***************************************************************************)
\* Rotations applied to the piece.
MaxTurns == 5

TurnInit ==
  /\ \E kind \in Kinds :
       board = [NewBoard(BoardRows, BoardCols) EXCEPT !.piece = NewPiece(kind)]
  /\ tetris = NewTetris(TimeStepMs)
  /\ drawn = 0
  /\ restarts = 0
  /\ events = {}
  /\ blocked = FALSE
  /\ hand = << >>

Turn(right) ==
  /\ Len(hand) < MaxTurns
  /\ board' = [board EXCEPT !.piece = PieceRotate(@, right)]
  /\ hand' = Append(hand, right)
  /\ events' = {"rotate"}
  /\ UNCHANGED <<tetris, drawn, restarts, blocked>>

TurnNext == Turn(TRUE) \/ Turn(FALSE)

TurnSpec == TurnInit /\ [][TurnNext]_vars

(***************************************************************************)
(* Line detection and compaction on their own: findLinesToClear and        *)
(* clearLines applied to every grid of a small board.                      *)
(***************************************************************************)
\* Board(nRows, nCols) of the grids: visible rows and columns.
SweepBoardRows == 3
SweepBoardCols == 2

\* The tiles of a grid are empty or of the colour of the I piece.
SweepGrids ==
  [1 .. (SweepBoardRows + kRowsAbove) * SweepBoardCols -> {kEmpty, kPieceI}]

SweepInit ==
  /\ \E tiles \in SweepGrids :
       board = [NewBoard(SweepBoardRows, SweepBoardCols) EXCEPT
                  !.tiles = tiles, !.tilesAfterClear = tiles]
  /\ tetris = NewTetris(TimeStepMs)
  /\ drawn = 0
  /\ restarts = 0
  /\ events = {}
  /\ blocked = FALSE
  /\ hand = << >>

\* findLinesToClear(), as frozePiece calls it once the tiles are written.
Find ==
  /\ board' = FindLinesToClear(board)
  /\ events' = {"find"}
  /\ UNCHANGED <<tetris, drawn, restarts, blocked, hand>>

\* clearLines().  The call is marked with the number of full rows it finds
\* pending, and "apart" when two pending rows are not adjacent.
Clear ==
  /\ events = {"find"}
  /\ board' = ClearLines(board)
  /\ events' = {"clearLines"}
                \cup (IF Len(board.linesToClear) = 2 THEN {"two"} ELSE {})
                \cup (IF /\ Len(board.linesToClear) = 2
                         /\ board.linesToClear[1] > board.linesToClear[2] + 1
                      THEN {"apart"} ELSE {})
  /\ UNCHANGED <<tetris, drawn, restarts, blocked, hand>>

SweepNext == Find \/ Clear

SweepSpec == SweepInit /\ [][SweepNext]_vars

(***************************************************************************)
(* Claims.                                                                 *)
(***************************************************************************)
\* Board::isPositionPossible(row_, col_, piece_): the active piece stands on
\* in-bounds, empty tiles.
AnchorValid(b) == IsPositionPossible(b, b.row, b.col, b.piece)

\* C1: in every reachable state, an active piece other than the none
\* sentinel has a collision-valid anchor position.
C1_ActivePieceAnchorValid ==
  board.piece.kind # kNone => AnchorValid(board)

\* The fields of the board that C2 speaks of: the grid, the active piece and
\* its anchor.
GridAndPiece(b) == <<b.tiles, b.piece, b.row, b.col>>

\* C2: once a blocked spawn has set gameOver there is no active piece, and
\* until restart every update, rotate and hardDrop leaves the grid, the
\* piece and its anchor unchanged and gameOver true.
C2_BlockedSpawnEndsPlay ==
  [][(blocked /\ "restart" \notin events')
       => /\ board.piece.kind = kNone
          /\ GridAndPiece(board') = GridAndPiece(board)
          /\ tetris'.gameOver]_vars

\* C3: when Tetris::hardDrop locks a piece and the spawn that follows finds
\* its start position colliding, Board::spawnPiece leaves the board as
\* frozePiece left it: piece, anchor, ghost row and grid.
C3_BlockedSpawnMutatesNothing ==
  [][("hardDrop" \in events' /\ "spawnBlocked" \in events')
       => board' = FrozePiece(BoardHardDrop(board).b).b]_vars

\* Every tile of the grid is kEmpty.
GridEmpty(b) == \A i \in DOMAIN b.tiles : b.tiles[i] = kEmpty

\* C4 as stated: a restart(1) that finds the start position of its piece
\* occupied sets gameOver and leaves the grid as it was.
C4_RestartOnOccupiedStartEndsGame ==
  [][("restart" \in events' /\ "preoccupied" \in events' /\ tetris'.level = 1)
       => (tetris'.gameOver /\ board'.tiles = board.tiles)]_vars

\* C4 amended: restart clears the grid before it spawns, so after restart
\* the grid is empty, the piece stands at a valid position and gameOver is
\* false, whatever the grid held before.
C4_RestartClearsGridAndSpawns ==
  "restart" \in events
    => /\ ~tetris.gameOver
       /\ board.piece.kind # kNone
       /\ AnchorValid(board)
       /\ GridEmpty(board)

\* A restart(1) called on a grid that blocked the start position.
C4_RestartedFromOccupiedStart ==
  "restart" \in events /\ "preoccupied" \in events /\ tetris.level = 1

\* Row r of a grid, as the sequence of its tiles.
GridRow(b, tiles, r) == [c \in 1 .. b.nCols |-> tiles[(r + kRowsAbove) * b.nCols + c]]

EmptyRow(b) == [c \in 1 .. b.nCols |-> kEmpty]

\* The rows of the grid, hidden rows included.
GridRows(b) == (-kRowsAbove) .. (b.nRows - 1)

\* C5: the pending linesToClear list is non-empty only while the controller
\* is paused for line clear.
C5_PendingLinesOnlyWhilePaused ==
  Len(board.linesToClear) > 0 => tetris.pausedForLinesClear

\* The rows at or below the anchor where the active piece rests.
RestRows == FitRows(board, board.row)

C7_GhostRowReachableFromValidAnchor ==
  (board.piece.kind # kNone /\ AnchorValid(board))
    => /\ board.ghostRow >= board.row
       /\ \A r \in board.row .. board.ghostRow :
            IsPositionPossible(board, r, board.col, board.piece)
       /\ ~IsPositionPossible(board, board.ghostRow + 1, board.col, board.piece)
       /\ BoardHardDrop(board).rows >= 0
       /\ AnchorValid(BoardHardDrop(board).b)

\* The rows of grid b that are filled in every column.
FullRows(b) ==
  {r \in GridRows(b) : \A c \in 0 .. b.nCols - 1 : IsTileFilled(b, r, c)}

\* clearLines() is applied to a grid with exactly the rows R1 < R2 full,
\* on which findLinesToClear() has just run.
TwoFullRows(R1, R2) ==
  /\ events = {"find"}
  /\ "clearLines" \in events'
  /\ R1 < R2
  /\ FullRows(board) = {R1, R2}

\* C8 as stated: with exactly the rows R1 < R2 full, findLinesToClear
\* reports R1 and R2; after clearLines rows R1 and R2 are empty, every row
\* above R1 is two rows lower, the top two rows are empty and the rows below
\* R2 are as before.
C8_TwoFullRowsEndEmpty ==
  [][\A R1, R2 \in GridRows(board) :
       TwoFullRows(R1, R2)
         => /\ {board.linesToClear[i] : i \in DOMAIN board.linesToClear} = {R1, R2}
            /\ GridRow(board', board'.tiles, R1) = EmptyRow(board)
            /\ GridRow(board', board'.tiles, R2) = EmptyRow(board)
            /\ \A r \in GridRows(board) :
                 r < R1 => GridRow(board', board'.tiles, r + 2) = GridRow(board, board.tiles, r)
            /\ \A r \in {-kRowsAbove, 1 - kRowsAbove} :
                 GridRow(board', board'.tiles, r) = EmptyRow(board)
            /\ \A r \in GridRows(board) :
                 r > R2 => GridRow(board', board'.tiles, r) = GridRow(board, board.tiles, r)]_vars

\* C8 amended: with exactly the rows R1 < R2 full, findLinesToClear lists
\* R2, then R1; after clearLines the rows below R2 are as before, every row
\* between R1 and R2 is one row lower, every row above R1 is two rows lower
\* and the top two rows are empty.  R1 and R2 hold what came down on them.
C8_TwoFullRowsCompact ==
  [][\A R1, R2 \in GridRows(board) :
       TwoFullRows(R1, R2)
         => /\ board.linesToClear = <<R2, R1>>
            /\ board'.linesToClear = << >>
            /\ \A r \in GridRows(board) :
                 /\ r > R2 => GridRow(board', board'.tiles, r) = GridRow(board, board.tiles, r)
                 /\ (R1 < r /\ r < R2)
                      => GridRow(board', board'.tiles, r + 1) = GridRow(board, board.tiles, r)
                 /\ r < R1 => GridRow(board', board'.tiles, r + 2) = GridRow(board, board.tiles, r)
            /\ \A r \in {-kRowsAbove, 1 - kRowsAbove} :
                 GridRow(board', board'.tiles, r) = EmptyRow(board)]_vars

\* clearLines() has compacted a grid with two full rows apart from each
\* other, and tiles are left on it.
C8_TwoRowsApartCleared ==
  /\ {"clearLines", "two", "apart"} \subseteq events
  /\ ~GridEmpty(board)
  /\ board.linesToClear = << >>

\* The update in progress ends a pause taken for the bottom row alone.
BottomRowCleared ==
  /\ "clear" \in events'
  /\ tetris.pausedForLinesClear
  /\ board.linesToClear = <<board.nRows - 1>>

\* C9 as stated, on the bounded board: a lock that completes the bottom row
\* makes linesToClear hold that row alone, and the update that ends the
\* pause (and locks nothing itself) leaves the bottom row empty and every
\* row above it one row lower.
C9_BottomRowClearedLeavesItEmpty ==
  [][(BottomRowCleared /\ "lock" \notin events')
       => /\ GridRow(board', board'.tiles, board.nRows - 1) = EmptyRow(board)
          /\ \A r \in GridRows(board) \ {board.nRows - 1} :
               GridRow(board', board'.tiles, r + 1) = GridRow(board, board.tiles, r)]_vars

\* C9 amended: a lock that completes the bottom row, and no other, pauses
\* the game with linesToClear holding that row alone; the clearLines of the
\* update that ends the pause moves every row above the bottom row one row
\* lower, so the bottom row then holds what the row above it held, and
\* empties the top row.  That is the grid the update leaves, unless the same
\* update goes on to lock the piece it spawns.
C9_BottomRowClearedShiftsRowsDown ==
  [][/\ ("lock" \in events' /\ FullRows(board') = {board.nRows - 1})
          => (board'.linesToClear = <<board.nRows - 1>>
              /\ tetris'.pausedForLinesClear)
     /\ BottomRowCleared
          => LET cleared == ClearLines(board).tiles
             IN /\ \A r \in GridRows(board) \ {board.nRows - 1} :
                     GridRow(board, cleared, r + 1) = GridRow(board, board.tiles, r)
                /\ GridRow(board, cleared, -kRowsAbove) = EmptyRow(board)
                /\ "lock" \notin events' => board'.tiles = cleared]_vars

\* The pause for the bottom row has ended and the row above it has come
\* down into it.
C9_BottomRowRefilled ==
  /\ "clear" \in events
  /\ GridRow(board, board.tiles, board.nRows - 1) # EmptyRow(board)
  /\ board.linesToClear = << >>

\* C10 as stated: the call in which a grounded piece is moved or rotated
\* for the kLockDownMovesLimit-th time locks the piece in the checkLock that
\* ends it.
C10_CappedMoveLocks ==
  [][("cap" \in events') => ("lock" \in events')]_vars

\* The piece has used up its counted moves: the call counts the last of
\* them, or finds them counted.
MovesUsedUp ==
  \/ "cap" \in events'
  \/ /\ board.piece.kind # kNone
     /\ tetris.nMovesWhileLocking >= kLockDownMovesLimit
     /\ ("update" \in events' \/ "rotate" \in events')

\* C10 amended: once a grounded piece has been moved or rotated
\* kLockDownMovesLimit times, the first checkLock that finds it on the
\* ground locks it; a checkLock that finds it off the ground, as after a
\* move from a ledge or a rotation that lifts it, leaves it in play.
C10_CappedPieceLocksOnGround ==
  [][MovesUsedUp
       => \/ "lock" \in events'
          \/ /\ board'.piece.kind # kNone
             /\ ~BoardIsOnGround(board')
             /\ ~tetris'.isOnGround]_vars

\* The call that counted the last move has locked the piece.
C10_LockedByCap ==
  /\ "cap" \in events
  /\ "lock" \in events

(***************************************************************************)
(* C11: the 7-bag randomizer.                                              *)
(***************************************************************************)
EachKindOnce(half) ==
  \A kind \in Kinds :
    Cardinality({i \in 1 .. kNumPieces : half[i] = kind}) = 1

NoRepeat(seq) ==
  \A i \in 1 .. Len(seq), j \in 1 .. Len(seq) : i # j => seq[i] # seq[j]

IsDraw(k) == k # kNone

\* The entries of the hand after its last restart.
RECURSIVE SinceRestart(_)
SinceRestart(h) ==
  IF h = << >> \/ h[Len(h)] = kNone THEN << >>
  ELSE Append(SinceRestart(SubSeq(h, 1, Len(h) - 1)), h[Len(h)])

\* C11 as stated: the draw index is always in 0..6, each half of the bag
\* always holds every kind exactly once, and the draws made since the draw
\* index was last 0 never repeat a kind, so that seven of them are each kind
\* exactly once.
C11_BagDealsEachKindOnce ==
  /\ tetris.nextPiece \in 0 .. kNumPieces - 1
  /\ EachKindOnce(FrontHalf(tetris.bag))
  /\ EachKindOnce(BackHalf(tetris.bag))
  /\ NoRepeat(SelectSeq(hand, IsDraw))

\* C11 amended: the draw index is always in 0..6, each half of the bag
\* always holds every kind exactly once, and the draws made since the later
\* of the last restart and the last draw at index 0 never repeat a kind;
\* seven draws from index 0 with no restart among them are each kind once.
C11_BagDealsEachKindOnceBetweenRestarts ==
  /\ tetris.nextPiece \in 0 .. kNumPieces - 1
  /\ EachKindOnce(FrontHalf(tetris.bag))
  /\ EachKindOnce(BackHalf(tetris.bag))
  /\ NoRepeat(SinceRestart(hand))
  /\ Len(SinceRestart(hand)) = kNumPieces
       => {hand[i] : i \in 1 .. Len(hand)} = Kinds

\* The second bag of a game has been dealt through without a restart.
C11_SecondBagDealt ==
  /\ restarts = 0
  /\ drawn = 2 * kNumPieces
  /\ Len(SinceRestart(hand)) = kNumPieces
  /\ tetris.bag # [i \in 1 .. 2 * kNumPieces |-> ((i - 1) % kNumPieces)]

(***************************************************************************)
(* C12: the failed moves of the board.                                     *)
(***************************************************************************)
\* Every kick of the rotation collides for the active piece of board b.
AllKicksCollide(b, right) ==
  /\ b.piece.kind \notin {kPieceO, kNone}
  /\ \A i \in 1 .. Len(Kicks(b.piece, right)) :
       ~IsPositionPossible(b, b.row + Kicks(b.piece, right)[i][1],
                           b.col + Kicks(b.piece, right)[i][2],
                           PieceRotate(b.piece, right))

\* C12: a Board::moveHorizontal or Board::moveVertical whose target position
\* collides, and a Board::rotate all of whose kicks collide, return false and
\* leave the shape, the rotation state, the anchor, the ghost row and the
\* grid as they were.
C12_FailedMoveChangesNothing ==
  /\ \A d \in {-1, 1} :
       /\ ~IsPositionPossible(board, board.row, board.col + d, board.piece)
            => /\ ~BoardMoveHorizontal(board, d).ok
               /\ BoardMoveHorizontal(board, d).b = board
       /\ ~IsPositionPossible(board, board.row + d, board.col, board.piece)
            => /\ ~BoardMoveVertical(board, d).ok
               /\ BoardMoveVertical(board, d).b = board
  /\ \A right \in BOOLEAN :
       AllKicksCollide(board, right)
         => /\ ~BoardRotate(board, right).ok
            /\ BoardRotate(board, right).b = board

\* A piece on the ground that can move to neither side and cannot be rotated
\* to the right.
C12_PieceStuck ==
  /\ ~IsPositionPossible(board, board.row, board.col - 1, board.piece)
  /\ ~IsPositionPossible(board, board.row, board.col + 1, board.piece)
  /\ ~IsPositionPossible(board, board.row + 1, board.col, board.piece)
  /\ AllKicksCollide(board, TRUE)

(***************************************************************************)
(* C13: game over by overflow.                                             *)
(***************************************************************************)
\* The visible rows, 0 .. nRows - 1, of a grid of board b.
VisibleRows(b, tiles) == [r \in 0 .. b.nRows - 1 |-> GridRow(b, tiles, r)]

\* The grid a lock of the step writes to: the grid before the step, compacted
\* when the step first ends a line-clear pause.
GridBeforeLock ==
  IF "clear" \in events' THEN ClearLines(board).tiles ELSE board.tiles

\* C13: a lock sets gameOver by overflow exactly when it writes no cell of
\* the piece to a visible row; a lock that writes a cell to a visible row
\* ends a game in progress only if the spawn that follows it is blocked.
C13_OverflowIffNothingVisibleFrozen ==
  [][("lock" \in events')
       => /\ ("overflow" \in events')
               <=> (VisibleRows(board', board'.tiles)
                      = VisibleRows(board, GridBeforeLock))
          /\ ("overflow" \in events') => tetris'.gameOver
          /\ (~tetris.gameOver /\ tetris'.gameOver /\ "overflow" \notin events')
               => "spawnBlocked" \in events']_vars

\* A piece has been frozen in the hidden rows alone and the game is over.
C13_FrozenAboveSkyline ==
  /\ events = {"hardDrop", "lock", "overflow"}
  /\ tetris.gameOver
  /\ \E c \in 0 .. board.nCols - 1 : TileAt(board, -1, c) # kEmpty
  /\ \E c \in 0 .. board.nCols - 1 : TileAt(board, 0, c) # kEmpty

(***************************************************************************)
(* C14: the state restart leaves.                                          *)
(***************************************************************************)
\* C14: after restart(level), from whatever state it was called in,
\* gameOver, pausedForLinesClear and isOnGround are false, every timer, the
\* score and the count of moves while locking are 0, the motion is none, the
\* grid is empty and a freshly spawned piece stands at a valid position.
C14_RestartResetsState ==
  "restart" \in events
    => /\ ~tetris.gameOver
       /\ ~tetris.pausedForLinesClear
       /\ ~tetris.isOnGround
       /\ tetris.moveDownTimer = 0
       /\ tetris.moveRepeatTimer = 0
       /\ tetris.moveRepeatDelayTimer = 0
       /\ tetris.lockingTimer = 0
       /\ tetris.linesClearTimer = 0
       /\ tetris.score = 0
       /\ tetris.nMovesWhileLocking = 0
       /\ tetris.motion = "none"
       /\ \A r \in GridRows(board) : GridRow(board, board.tiles, r) = EmptyRow(board)
       /\ board.piece = NewPiece(board.piece.kind)
       /\ board.piece.kind \in Kinds
       /\ IsPositionPossible(board, board.row, board.col, board.piece)

\* restart was called during the pause that follows a line clear: the list
\* of rows to clear, which restart leaves alone, is still there.
C14_RestartedWhilePaused ==
  /\ "restart" \in events
  /\ Len(board.linesToClear) > 0

(***************************************************************************)
(* C15: the algebra of Piece::rotate.                                      *)
(***************************************************************************)
RECURSIVE Turned(_, _, _)
Turned(p, right, n) ==
  IF n = 0 THEN p ELSE Turned(PieceRotate(p, right), right, n - 1)

\* The piece after the rotations of turns, made in their order.
RECURSIVE Replayed(_, _)
Replayed(p, turns) ==
  IF turns = << >> THEN p
  ELSE Replayed(PieceRotate(p, turns[1]), SubSeq(turns, 2, Len(turns)))

\* C15: for every kind but O, the rotation state is always in 0..3, four
\* rotate(right) return the shape and the state to what they were, from the
\* spawn state 0 to the constructed shape, and rotate(right) followed by
\* rotate(left) restores the shape and the state.
C15_RotationsCompose ==
  board.piece.kind # kPieceO
    => /\ board.piece.state \in 0 .. kNumStates - 1
       /\ Turned(board.piece, TRUE, kNumStates) = board.piece
       /\ PieceRotate(PieceRotate(board.piece, TRUE), FALSE) = board.piece
       /\ board.piece.state = 0 => board.piece = NewPiece(board.piece.kind)
       /\ (Len(hand) >= 2 /\ hand[Len(hand) - 1] /\ ~hand[Len(hand)])
            => board.piece
                 = Replayed(NewPiece(board.piece.kind), SubSeq(hand, 1, Len(hand) - 2))

\* A T piece has been rotated to the right four times.
C15_FourTimesRight ==
  /\ board.piece.kind = kPieceT
  /\ hand = <<TRUE, TRUE, TRUE, TRUE>>
  /\ board.piece = NewPiece(kPieceT)

(***************************************************************************)
(* C16: the O piece does not rotate.                                       *)
(***************************************************************************)
\* C16: rotate() called on a freshly spawned O piece, to the right or to the
\* left, leaves the shape, the rotation state, the anchor and the ghost row
\* as they were: Piece::rotate returns the piece it was given, Board::rotate
\* returns false, and the board after Tetris::rotate holds the same piece at
\* the same place.
C16_RotateLeavesFreshOPiece ==
  [][("spawn" \in events /\ board.piece.kind = kPieceO /\ "rotate" \in events')
       => /\ \A right \in BOOLEAN :
               /\ PieceRotate(board.piece, right) = board.piece
               /\ ~BoardRotate(board, right).ok
               /\ BoardRotate(board, right).b = board
          /\ board'.piece = board.piece
          /\ board'.row = board.row
          /\ board'.col = board.col
          /\ board'.ghostRow = board.ghostRow]_vars

\* rotate() has been called on the O piece that the constructor spawned.
C16_FirstOPieceRotated ==
  /\ events = {"rotate"}
  /\ drawn = 1
  /\ board = BoardSpawnPiece(NewBoard(BoardRows, BoardCols), kPieceO).b

(***************************************************************************)
(* C17: the first kick.                                                    *)
(***************************************************************************)
KickTables == {kKicksIRight, kKicksILeft, kKicksOtherRight, kicksOtherLeft}

\* The rotated piece fits at the anchor of the active piece of board b.
FitsInPlace(b, right) ==
  /\ b.piece.kind \notin {kPieceO, kNone}
  /\ IsPositionPossible(b, b.row, b.col, PieceRotate(b.piece, right))

\* C17: in every kick table the row of every rotation state 0..3 begins
\* with the offset (0,0); a rotation whose rotated shape is collision-free
\* at the current anchor succeeds and leaves the anchor where it was.
C17_FirstKickIsNoKick ==
  /\ \A table \in KickTables :
       /\ Len(table) = kNumStates
       /\ \A state \in 0 .. kNumStates - 1 : table[state + 1][1] = <<0, 0>>
  /\ \A right \in BOOLEAN :
       /\ board.piece.kind \in Kinds \ {kPieceO}
            => Kicks(board.piece, right)[1] = <<0, 0>>
       /\ FitsInPlace(board, right)
            => /\ BoardRotate(board, right).ok
               /\ BoardRotate(board, right).b.piece = PieceRotate(board.piece, right)
               /\ BoardRotate(board, right).b.row = board.row
               /\ BoardRotate(board, right).b.col = board.col

\* A game in progress in which a piece has just been rotated and can be
\* rotated back where it stands, although the second kick of its table row
\* would fit as well.
C17_RotatedWithRoomAside ==
  /\ events = {"rotate"}
  /\ ~tetris.gameOver
  /\ board.piece.state = 1
  /\ FitsInPlace(board, FALSE)
  /\ IsPositionPossible(board, board.row + Kicks(board.piece, FALSE)[2][1],
                        board.col + Kicks(board.piece, FALSE)[2][2],
                        PieceRotate(board.piece, FALSE))

(***************************************************************************)
(* C18: the lock progress.                                                 *)
(***************************************************************************)
\* C18: lockPercent() = lockingTimer_ / kLockDownTimeLimit_ lies in [0,1]
\* after every command: the locking timer is at least 0 and at most the
\* lock-down time limit.
C18_LockPercentInUnitInterval ==
  /\ tetris.lockingTimer >= 0
  /\ tetris.lockingTimer <= kLockDownTimeLimit

(***************************************************************************)
(* C19: the progress of the line-clear pause.                              *)
(***************************************************************************)
\* C19: linesClearPausePercent() = linesClearTimer_ / kPauseAfterLineClear_
\* lies in [0,1] after every command, the update in which the pause expires
\* and those after it included: the pause timer is at least 0 and at most
\* the length of the pause.
C19_PausePercentInUnitInterval ==
  /\ tetris.linesClearTimer >= 0
  /\ tetris.linesClearTimer <= kPauseAfterLineClear

(***************************************************************************)
(* C20: the count of cleared lines.                                        *)
(***************************************************************************)
\* C20: linesCleared() is the number of full rows that line clears have
\* removed from the grid since the last restart: restart sets it to 0, an
\* update that ends a line-clear pause adds the number of rows it removes,
\* and no other call changes it.
C20_LinesClearedCountsRemovedRows ==
  [][tetris'.linesCleared
       = IF "restart" \in events' THEN 0
         ELSE IF "clear" \in events'
              THEN tetris.linesCleared + Len(board.linesToClear)
              ELSE tetris.linesCleared]_vars

(***************************************************************************)
(* C21: the preview of the next piece.                                     *)
(***************************************************************************)
\* C21: the kind nextPiece() reports before a call is the kind of the piece
\* that the spawn of the call produces, when the call is no restart; so it
\* is across the bag boundary, where the lookahead half becomes the front.
C21_NextPieceIsSpawned ==
  [][(drawn' = drawn + 1 /\ "restart" \notin events')
       => board'.piece.kind = NextPiece(tetris)]_vars

\* The first piece of the second bag has been spawned by a hard drop, and
\* the preview shows an entry of what was the lookahead half.
C21_FirstOfSecondBagSpawned ==
  /\ events = {"hardDrop", "lock", "spawn"}
  /\ restarts = 0
  /\ drawn = kNumPieces + 1
  /\ tetris.nextPiece = 1
  /\ hand = <<board.piece.kind>>

(***************************************************************************)
(* C22: the moves that restart the lock delay.                             *)
(***************************************************************************)
\* The step rotates the active piece, or moves it to another column in an
\* update, and does not lock it.
MovedOrRotated ==
  /\ "lock" \notin events'
  /\ \/ "rotate" \in events' /\ board'.piece # board.piece
     \/ "update" \in events' /\ board'.col # board.col

\* C22: every successful horizontal move or rotation of a piece that cannot
\* move one row down sets the locking timer to 0 and adds 1 to the count of
\* moves while locking, also when the piece spawned onto the stack and no
\* lock check has run since.
C22_GroundedMoveIsCounted ==
  [][(/\ ~tetris.gameOver
      /\ board.piece.kind \in Kinds
      /\ AnchorValid(board)
      /\ BoardIsOnGround(board)
      /\ MovedOrRotated)
       => /\ tetris'.lockingTimer = 0
          /\ tetris'.nMovesWhileLocking = tetris.nMovesWhileLocking + 1]_vars

(***************************************************************************)
(* C23: the lock delay.                                                    *)
(***************************************************************************)
\* The active piece of the state is on the ground, the controller has seen
\* it there, and the update now called brings its time on the ground to the
\* lock-down time limit.
DelayRunsOut ==
  /\ board.piece.kind \in Kinds
  /\ BoardIsOnGround(board)
  /\ tetris.isOnGround
  /\ tetris.lockingTimer + tetris.timeStep >= kLockDownTimeLimit
  /\ "update" \in events'

\* C23: the update that brings the grounded time of a piece to the lock-down
\* time limit locks it unless it moves the piece, and in a game in progress
\* a piece whose count of moves is below the cap is locked by no other call
\* than that update or a hard drop.
C23_LockedWhenDelayRunsOut ==
  [][/\ DelayRunsOut => ("lock" \in events' \/ board'.col # board.col)
     /\ (/\ ~tetris.gameOver
         /\ "lock" \in events'
         /\ "hardDrop" \notin events'
         /\ "cap" \notin events'
         /\ tetris.nMovesWhileLocking < kLockDownMovesLimit)
          => DelayRunsOut]_vars

(***************************************************************************)
(* C24: stalling is bounded.                                               *)
(***************************************************************************)
\* The n-th piece drawn is active in a game in progress.
InPlay(n) == drawn = n /\ board.piece.kind \in Kinds /\ ~tetris.gameOver

C25_TimerRunsOnlyOnGround ==
  tetris.lockingTimer > 0 => board.piece.kind \in Kinds /\ BoardIsOnGround(board)

(***************************************************************************)
(* C26: an update during the pause only advances the pause timer.          *)
(***************************************************************************)
\* An update is called during the pause and leaves the pause timer below
\* the pause duration.
PausedUpdate ==
  /\ tetris.pausedForLinesClear
  /\ tetris.linesClearTimer + tetris.timeStep < kPauseAfterLineClear
  /\ "update" \in events'

\* C26: an update called while paused for line clear whose incremented pause
\* timer is below the pause duration changes nothing but the pause timer,
\* whatever the inputs: the board (grid, linesToClear, piece, position), the
\* bag and its index, every other timer, the motion, the previous-input
\* flags and gameOver are as before, and nothing is drawn.
C26_PausedUpdateOnlyAdvancesPauseTimer ==
  [][PausedUpdate
       => /\ board' = board
          /\ tetris' = [tetris EXCEPT !.linesClearTimer = @ + tetris.timeStep]
          /\ drawn' = drawn]_vars

\* An update has been called during a pause and the pause goes on.
C26_PauseGoesOn ==
  /\ events = {"update"}
  /\ tetris.pausedForLinesClear
  /\ tetris.linesClearTimer = tetris.timeStep
  /\ board.linesToClear # << >>
  /\ board.piece.kind = kNone

(***************************************************************************)
(* C27: the pause after a line clear.                                      *)
(***************************************************************************)
\* An update is called during the pause and brings the pause timer to the
\* pause duration.
PauseExpires ==
  /\ tetris.pausedForLinesClear
  /\ tetris.linesClearTimer + tetris.timeStep >= kPauseAfterLineClear
  /\ "update" \in events'

\* The number of filled tiles of grid b.
FilledTiles(b) == Cardinality({i \in DOMAIN b.tiles : b.tiles[i] # kEmpty})

\* The controller pauses after the lock of the n-th piece drawn.
PausedAfter(n) == tetris.pausedForLinesClear /\ drawn = n

LockedWithoutOverflow == "lock" \in events' /\ "overflow" \notin events'

\* C28: a lock that does not overflow and completes no row spawns the next
\* piece within the same call; one that completes a row leaves the
\* controller paused with the pause timer at 0 and no piece active, and no
\* piece is drawn before the pause expires.  So whenever a piece is active,
\* the grid has no fully occupied row.
C28_SpawnOrPauseAfterLock ==
  /\ [][/\ LockedWithoutOverflow
             => IF FullRows(board') = {}
                THEN /\ drawn' > drawn
                     /\ events' \cap {"spawn", "spawnBlocked"} # {}
                     /\ board'.piece.kind \in Kinds
                     /\ ~tetris'.pausedForLinesClear
                ELSE /\ tetris'.pausedForLinesClear
                     /\ tetris'.linesClearTimer = 0
                     /\ board'.piece.kind = kNone
                     /\ board'.linesToClear # << >>
        /\ (tetris.pausedForLinesClear /\ drawn' # drawn /\ "restart" \notin events')
             => PauseExpires]_vars
  /\ [](board.piece.kind \in Kinds => FullRows(board) = {})

\* A hard drop has completed a row: the controller pauses with no piece.
C28_PausedAfterLock ==
  /\ events = {"hardDrop", "lock"}
  /\ ~tetris.gameOver
  /\ tetris.pausedForLinesClear
  /\ tetris.linesClearTimer = 0
  /\ FullRows(board) # {}
  /\ board.piece.kind = kNone

(***************************************************************************)
(* C29: hardDrop.                                                          *)
(***************************************************************************)
\* The grid holds the tiles of piece p with its box at row r, column c.
HoldsPieceAt(b, p, r, c) ==
  \A cell \in Cells(p) :
    TileAt(b, r + cell[1], c + cell[2]) = p.shape[cell[1] * p.bBoxSide + cell[2] + 1]

\* C29: hardDrop with an active piece freezes it into the grid at
\* (ghostRow, col) within the call, whatever the lock timer and the move
\* counter, and writes no other tile; with no active piece it changes
\* nothing.
C29_HardDropFreezesAtGhostRow ==
  [][("hardDrop" \in events')
       => IF board.piece.kind = kNone
          THEN board' = board /\ tetris' = tetris /\ drawn' = drawn
          ELSE /\ "lock" \in events'
               /\ HoldsPieceAt(board', board.piece, board.ghostRow, board.col)
               /\ \A r \in GridRows(board), c \in 0 .. board.nCols - 1 :
                    \/ TileAt(board', r, c) = TileAt(board, r, c)
                    \/ \E cell \in Cells(board.piece) :
                         r = board.ghostRow + cell[1] /\ c = board.col + cell[2]]_vars

\* The first piece has been hard dropped: its four tiles are in the grid
\* and the next piece is active.
C29_DroppedFromTheAir ==
  /\ events = {"hardDrop", "lock", "spawn"}
  /\ ~tetris.gameOver
  /\ drawn = 2
  /\ FilledTiles(board) = 4

(***************************************************************************)
(* C30: left and right pressed together.                                   *)
(***************************************************************************)
\* update has run past the pause handling with the keys on record.
FrameRun == "update" \in events' /\ ~PausedUpdate

\* The directions whose key was up on the previous frame that was not
\* paused.
FreshKeys ==
  {d \in {"left", "right"} :
     IF d = "left" THEN ~tetris.moveLeftPrev ELSE ~tetris.moveRightPrev}

\* The same piece stands on the board before and after the call.
SamePiece == {"spawn", "spawnBlocked", "lock", "clear"} \cap events' = {}

\* C30: in an update with left and right both pressed the direction acted
\* on is one whose key was not held on the previous frame that was not
\* paused, and when both were held it is the motion of that frame; in every
\* update at most one direction is acted on, by at most one column, and the
\* previous-input flags become the raw inputs.
C30_LastPressedKeyWins ==
  [][FrameRun
       => LET moveRight == hand'[2]
              moveLeft == hand'[3]
          IN /\ tetris'.moveRightPrev = moveRight
             /\ tetris'.moveLeftPrev = moveLeft
             /\ (moveRight /\ moveLeft)
                  => IF FreshKeys = {} THEN tetris'.motion = tetris.motion
                     ELSE tetris'.motion \in FreshKeys
             /\ (moveRight /\ ~moveLeft) => tetris'.motion = "right"
             /\ (moveLeft /\ ~moveRight) => tetris'.motion = "left"
             /\ (~moveLeft /\ ~moveRight) => tetris'.motion = "none"
             /\ SamePiece
                  => \/ board'.col = board.col
                     \/ tetris'.motion = "right" /\ board'.col = board.col + 1
                     \/ tetris'.motion = "left" /\ board'.col = board.col - 1]_vars

\* Both keys are down and left is acted on: left was pressed over a held
\* right key, or both were held while the piece was moving left.
C30_LeftWinsOverRight ==
  /\ events = {"update"}
  /\ hand = <<FALSE, TRUE, TRUE>>
  /\ tetris.motion = "left"
  /\ ~tetris.gameOver
  /\ board.piece.kind \in Kinds

(***************************************************************************)
(* C31: delayed auto shift.                                                *)
(***************************************************************************)
\* The column step of the motion m.
DCol(m) == IF m = "right" THEN 1 ELSE IF m = "left" THEN -1 ELSE 0

\* The update has attempted a move of one column in the direction of the
\* motion it leaves: the repeat timer is back at 0, and the piece has moved
\* if the next column was free.
MoveAttempted ==
  /\ tetris'.moveRepeatTimer = 0
  /\ IF IsPositionPossible(board, board.row, board.col + DCol(tetris'.motion), board.piece)
     THEN board'.col = board.col + DCol(tetris'.motion)
     ELSE board'.col = board.col

\* The update has attempted no move: the repeat timer runs on and the
\* piece is in its column.
NoMoveAttempted == tetris'.moveRepeatTimer > 0 /\ board'.col = board.col

\* C31: the update at which a resolved direction starts being held attempts
\* one move of one column and resets both repeat timers; while the hold
\* goes on no move is attempted before the initial delay has elapsed since
\* then, and after that one move is attempted each time the repeat interval
\* has elapsed since the last one; no update moves the piece by more than
\* one column.
C31_DelayedAutoShift ==
  [][("update" \in events' /\ SamePiece)
       => /\ IF hand'[3] THEN MoveAttempted ELSE NoMoveAttempted
          /\ (tetris'.motion \notin {"none", tetris.motion})
               => tetris'.moveRepeatDelayTimer = 0 /\ hand'[3]
          /\ (tetris'.motion = tetris.motion /\ hand'[3])
               => hand'[1] >= kMoveRepeatDelay /\ tetris'.moveRepeatDelayTimer > 0]_vars

\* Right has been held from the first update on: the piece moved one column
\* at once, and a second column at the update that made the initial delay
\* elapse.
C31_AutoShifted ==
  /\ events = {"update"}
  /\ hand = <<kMoveRepeatDelay, 0, TRUE>>
  /\ tetris.motion = "right"
  /\ board.col = (DasBoardCols - 2) \div 2 + 2
  /\ tetris.moveRepeatTimer = 0
  /\ tetris.moveDownTimer = kMoveRepeatDelay + DasStepMs

(***************************************************************************)
(* C32: gravity.                                                           *)
(***************************************************************************)
\* Gravity is due in an update with the soft drop key as given: the
\* moveDown timer reaches secondsPerLine_ / speedFactor.
GravityDue(softDrop) ==
  (tetris.moveDownTimer + tetris.timeStep)
     * (IF softDrop THEN kSoftDropSpeedFactor ELSE 1) >= tetris.secondsPerLine

\* The state update leaves with and without soft drop is the same.
SoftDropIsIdle(moveRight, moveLeft) ==
  TetrisUpdate(St, TRUE, moveRight, moveLeft, Identity)
    = TetrisUpdate(St, FALSE, moveRight, moveLeft, Identity)

\* C32: an update outside the pause moves the piece down one row, if the
\* row below is free in the column the horizontal move of the same update
\* has left it in, exactly when the moveDown timer reaches secondsPerLine /
\* (softDrop ? 20 : 1), and then resets the timer whether or not the piece
\* moved; otherwise the timer runs on and the row is kept.  Soft drop
\* changes nothing else: when gravity is due, or not due, with and without
\* it, the update leaves the same state.
C32_GravityOneRowWhenDue ==
  [][("update" \in events' /\ ~PausedUpdate)
       => /\ SamePiece
               => IF GravityDue(hand'[1])
                  THEN /\ tetris'.moveDownTimer = 0
                       /\ board'.row =
                            IF IsPositionPossible(board, board.row + 1, board'.col, board.piece)
                            THEN board.row + 1 ELSE board.row
                  ELSE /\ tetris'.moveDownTimer = tetris.moveDownTimer + tetris.timeStep
                       /\ board'.row = board.row
          /\ \A moveRight, moveLeft \in BOOLEAN :
               (GravityDue(TRUE) <=> GravityDue(FALSE))
                 => SoftDropIsIdle(moveRight, moveLeft)]_vars

\* Soft drop has been held for two updates from the start: the piece has
\* come down one row at the second.
C32_SoftDropped ==
  /\ events = {"update"}
  /\ hand = <<TRUE, FALSE, FALSE>>
  /\ tetris.moveRepeatDelayTimer = 2 * FallStepMs
  /\ tetris.moveDownTimer = 0
  /\ board.row = 1
  /\ board.piece.kind = kPieceO

\* The candidates of the kick row of piece p's state that are free of
\* collisions for the rotated piece on board b.
FreeKicks(b, right) ==
  {i \in 1 .. Len(Kicks(b.piece, right)) :
     IsPositionPossible(b, b.row + Kicks(b.piece, right)[i][1],
                        b.col + Kicks(b.piece, right)[i][2], PieceRotate(b.piece, right))}

\* Row g is where the active piece of board b comes to rest when dropped.
RestsAt(b, g) ==
  /\ g >= b.row
  /\ \A r \in b.row .. g : IsPositionPossible(b, r, b.col, b.piece)
  /\ ~IsPositionPossible(b, g + 1, b.col, b.piece)

\* C33: Board::rotate on a piece other than O reads the five kicks of the
\* table row of the state the piece is in before the rotation, for the given
\* direction; it fails and leaves the board as it was exactly when the
\* rotated shape collides at all five, and otherwise it takes the rotated
\* shape, moves the anchor by the first kick that is free of collisions and
\* by nothing else, and stores the ghost row of the new position.
C33_FirstFreeKickIsApplied ==
  \A right \in BOOLEAN :
    board.piece.kind \in Kinds \ {kPieceO}
      => LET rotated == BoardRotate(board, right)
             table == IF board.piece.kind = kPieceI
                      THEN (IF right THEN kKicksIRight ELSE kKicksILeft)
                      ELSE (IF right THEN kKicksOtherRight ELSE kicksOtherLeft)
             kicks == table[board.piece.state + 1]
             free == FreeKicks(board, right)
         IN /\ Len(kicks) = 5
            /\ Kicks(board.piece, right) = kicks
            /\ IF free = {}
               THEN ~rotated.ok /\ rotated.b = board
               ELSE LET first == CHOOSE i \in free : \A j \in free : i <= j
                    IN /\ rotated.ok
                       /\ rotated.b.piece = PieceRotate(board.piece, right)
                       /\ rotated.b.row = board.row + kicks[first][1]
                       /\ rotated.b.col = board.col + kicks[first][2]
                       /\ RestsAt(rotated.b, rotated.b.ghostRow)
                       /\ rotated.b = [board EXCEPT !.piece = rotated.b.piece,
                                                    !.row = rotated.b.row,
                                                    !.col = rotated.b.col,
                                                    !.ghostRow = rotated.b.ghostRow]

\* A game in progress whose piece was just rotated and can be rotated to the
\* right only by a kick later than the second, although a still later kick
\* is free as well.
C33_KickedPastTheSecond ==
  /\ events = {"rotate"}
  /\ board.piece.kind \in Kinds \ {kPieceO}
  /\ \E i, j \in FreeKicks(board, TRUE) : 2 < i /\ i < j
  /\ {1, 2} \cap FreeKicks(board, TRUE) = {}

\* The tile of grid tiles at row r and column c of board b.
TileOf(b, tiles, r, c) == tiles[(r + kRowsAbove) * b.nCols + c + 1]

\* Grid after is grid before without the rows in full: a row that stays has
\* moved down by the number of full rows beneath it, and the top rows are
\* empty, as many as there are rows in full.
Compacted(b, before, after, full) ==
  /\ DOMAIN after = DOMAIN before
  /\ \A r \in GridRows(b) \ full : \A c \in 0 .. b.nCols - 1 :
        TileOf(b, after, r + Cardinality({f \in full : f > r}), c) = TileOf(b, before, r, c)
  /\ \A r \in GridRows(b) : \A c \in 0 .. b.nCols - 1 :
        r < Cardinality(full) - kRowsAbove => TileOf(b, after, r, c) = kEmpty

\* C34: findLinesToClear leaves the grid as it is, lists in linesToClear
\* exactly the full rows, hidden and visible, each once and from the bottom
\* up, and builds in tilesAfterClear the grid without those rows; the
\* clearLines that follows makes that grid the live one, so that the number
\* of occupied cells drops by nCols for every listed row and no row is full.
C34_FullRowsListedAndRemoved ==
  [][/\ events' = {"find"}
          => /\ board'.tiles = board.tiles
             /\ Len(board'.linesToClear) = Cardinality(FullRows(board))
             /\ \A i \in 1 .. Len(board'.linesToClear) :
                   /\ board'.linesToClear[i] \in FullRows(board)
                   /\ \A j \in 1 .. i - 1 : board'.linesToClear[j] > board'.linesToClear[i]
             /\ Compacted(board, board.tiles, board'.tilesAfterClear, FullRows(board))
     /\ "clearLines" \in events'
          => /\ board'.tiles = board.tilesAfterClear
             /\ Compacted(board, board.tiles, board'.tiles, FullRows(board))
             /\ FilledTiles(board') = FilledTiles(board) - board.nCols * Len(board.linesToClear)
             /\ FullRows(board') = {}
             /\ board'.linesToClear = << >>]_vars

\* findLinesToClear() has found the bottom row and the lower hidden row
\* full on a grid with one tile more, in the top hidden row, which
\* tilesAfterClear holds two rows lower.
C34_HiddenRowListed ==
  /\ events = {"find"}
  /\ board.linesToClear = <<SweepBoardRows - 1, -1>>
  /\ TileOf(board, board.tiles, -kRowsAbove, 0) # kEmpty
  /\ TileOf(board, board.tilesAfterClear, 2 - kRowsAbove, 0) # kEmpty
  /\ FilledTiles(board) = 2 * SweepBoardCols + 1

\* C35: gameOver turns true only in a call that freezes a piece that was
\* active (one on the board before the call or spawned by it) with no cell
\* at or below the skyline, or in a call whose spawn is blocked; a rotate or
\* an update called during the pause after a line clear, when the board has
\* no piece, does not raise it.
C35_GameOverOnlyByOverflowOrBlockedSpawn ==
  [][(~tetris.gameOver /\ tetris'.gameOver)
       => \/ "spawnBlocked" \in events'
          \/ /\ "overflow" \in events'
             /\ board.piece.kind # kNone \/ "spawn" \in events']_vars

\* C36: a rotate or a hardDrop called while the controller is paused for
\* line clear changes neither the board nor the controller: the grid,
\* linesToClear, the isOnGround flag, the lock timer, the move counter, the
\* pause timer and gameOver are after the call what they were before it.
C36_PausedRotateAndHardDropChangeNothing ==
  [][(tetris.pausedForLinesClear /\ {"rotate", "hardDrop"} \cap events' # {})
       => board' = board /\ tetris' = tetris]_vars

\* C37: nMovesWhileLocking_ is always within 0 .. kLockDownMovesLimit_; it
\* falls only in a call that spawns a piece, so leaving the ground does not
\* reset it; and a piece that has used all its moves is never left on the
\* ground by a call: the lock check that finds it grounded locks it.
C37_MoveCounterWithinCap ==
  /\ [](tetris.nMovesWhileLocking \in 0 .. kLockDownMovesLimit)
  /\ []((tetris.nMovesWhileLocking = kLockDownMovesLimit /\ board.piece.kind # kNone)
          => ~BoardIsOnGround(board))
  /\ [][tetris'.nMovesWhileLocking < tetris.nMovesWhileLocking
          => {"spawn", "spawnBlocked"} \cap events' # {}]_vars

\* The piece has used its last counted move on a rotation that lifted it
\* off the ground, and an update later it is still in the air and in play.
C37_CappedPieceInTheAir ==
  /\ events = {"update"}
  /\ tetris.nMovesWhileLocking = kLockDownMovesLimit
  /\ board.piece.kind # kNone
  /\ ~tetris.isOnGround

\* C38: a call that freezes the piece of the board (and clears no rows)
\* leaves every cell that was occupied with the colour it had and occupies
\* exactly four cells more, whatever calls came before, calls after game
\* over included.
C38_FreezeFillsFourEmptyCells ==
  [][("lock" \in events' /\ "clear" \notin events' /\ board.piece.kind # kNone)
       => /\ FilledTiles(board') = FilledTiles(board) + 4
          /\ \A i \in DOMAIN board.tiles :
                board.tiles[i] # kEmpty => board'.tiles[i] = board.tiles[i]]_vars

\* C39: after every call the controller is in exactly one of its states:
\* with neither gameOver nor pausedForLinesClear set the board has an active
\* piece, with pausedForLinesClear set it has none, and gameOver and
\* pausedForLinesClear are not both set.
C39_ExactlyOneControllerState ==
  /\ (~tetris.gameOver /\ ~tetris.pausedForLinesClear) => board.piece.kind # kNone
  /\ tetris.pausedForLinesClear => board.piece.kind = kNone
  /\ ~(tetris.gameOver /\ tetris.pausedForLinesClear)

\* C40: the Enter key on the start screen begins play on a freshly
\* restarted controller, with an empty grid and gameOver false, whatever
\* game was over or left before, so the first update of the main loop after
\* it leaves the application in kGameRun.
C40_StartBeginsFreshGame ==
  /\ [][("start" \in events') => (GridEmpty(board') /\ ~tetris'.gameOver)]_vars
  /\ [][("start" \in events /\ "update" \in events')
          => hand'.gameState = "kGameRun"]_vars
====
